---- MODULE Spec2Model ----
(***************************************************************************)
(* A model of the VYL compiler (src/new-compiler): the driver compile_vyl, *)
(* the include preprocessor, the lexer/parser interface, the semantic      *)
(* passes, and the run-time behaviour of the assembly the code generator   *)
(* emits (defer / `?`, array bounds checks, the mark-sweep collector).     *)
(*                                                                         *)
(* Each part has its own specification over the shared variable list; the  *)
(* variables of the other parts stay at their idle values.                 *)
(***************************************************************************)
EXTENDS Integers, Sequences, FiniteSets, TLC

VARIABLES
    \* ---- driver: compile_vyl (main.py) ----
    dpc,          \* the step compile_vyl is at
    decls,        \* top-level declarations of the program: <<kind, name>>
    srcFault,     \* which body-level check the program trips, if any
    asmOnly,      \* generate_assembly_only
    useKeystone,  \* use_keystone
    target,       \* target
    result,       \* return value of compile_vyl ("none" while running)
    fs,           \* output artifacts written by this invocation that exist
    failedPhase,  \* the phase that raised / returned False
    codegenRan,   \* generate_assembly was called
    \* ---- include preprocessing: preprocess_includes (main.py) ----
    incStatus,    \* "run", "done", "cyclic" (SyntaxError), "missing" (FileNotFoundError)
    incStack,     \* active calls: [dir, text, i, out], innermost last
    seen,         \* the shared `seen` set of resolved paths
    disk,         \* contents of the files read so far, by resolved path
    incOut,       \* the text returned by the outermost call
    \* ---- lexer and parser: tokenize (lexer.py), parse (parser.py) ----
    lpStatus,     \* "lex", "parse", "done"
    lpSrc,        \* the source text, as its sequence of lexemes
    lpTokens,     \* the token types produced so far
    lpAccepted,   \* "none" until parsed; then TRUE, or FALSE for a SyntaxError
    \* ---- semantic passes and code generation on a parsed program ----
    semPc,        \* "resolve", "typecheck", "validate", "codegen", "done"
    semProg,      \* the parsed program: [unit, params, globals, body]
    semRejectedBy,\* the pass that raised, or "none"
    semError,     \* the exception raised, or "none"
    \* ---- defer and `?`: generated code and its execution ----
    dfStatus,     \* "compile", "run", "returned"
    dfProg,       \* the function: [kind, body]
    dfCode,       \* the instructions generated for it
    rpc,          \* index of the next instruction
    rax,          \* %rax
    rstack,       \* words pushed on the machine stack by the function
    rvar,         \* the local that receives the value of `e?` (<<>> at entry)
    rlog,         \* what has happened so far: [e, v] events
    retValue,     \* <<v>> for the value computed for the return in progress
    iters,        \* iterations of the current loop
    \* ---- array indexing: the emitted bounds check and its execution ----
    ixPc,         \* the instruction the index operation is at
    ixKind,       \* "read" (generate_expression) or "addr" (generate_address)
    ixBase,       \* the value of the receiver expression
    ixHeader,     \* the word at -8 from the array's data pointer
    ixIndex,      \* the value of the index expression
    rbx,          \* %rbx
    rcx,          \* %rcx
    rdx,          \* %rdx
    ixAccess,     \* <<address>> once the element has been accessed
    ixExit,       \* <<status>> once the process has exited
    \* ---- the mark-sweep collector: vyl_alloc, vyl_mark_ptr, vyl_collect ----
    gcPc,         \* "mutate", "scan", "sweep", "done", "crashed", "hung"
    heap,         \* the cells malloc has handed out: [state, next, size, mark]
    vyl_head,     \* header address of the first cell of the allocation list
    roots,        \* the words of the caller's frames below stack_base
    scanAt,       \* %r13: the stack word the mark scan is at
    sweepCur,     \* %rbx of the sweep loop: the cell it is at
    sweepPrev,    \* %rdi of the sweep loop: the cell before it
    marked,       \* the cells vyl_mark_ptr has marked in this pass
    freed,        \* the cells passed to free in this pass
    listAtCall,   \* the allocation list when vyl_collect was called
    \* ---- calls with default arguments: the arity check and the emitted argument list ----
    callPc,       \* "check", "emit", "done", "failed" (code generation raised)
    callee,       \* the declaration: [kind, name, defaults], defaults[i] iff parameter i has one
    nargs,        \* number of arguments the call supplies
    callVerdict,  \* "accepted" or "rejected" by the type checker
    passedArgs,   \* the argument expressions the emitted call evaluates
    \* ---- assignment checks ----
    asPc,         \* the pass the compilation of asProg has reached
    asProg,       \* the program under compilation
    asRejectedBy, \* the pass that raised, or "none"
    \* ---- tuple unpacking: the type of the right-hand side and its element count ----
    upPc,         \* "type", "check", "scan", "count", "done"
    upValue,      \* the right-hand side of the TupleUnpack
    upNames,      \* number of names the TupleUnpack declares
    val_type,     \* the type string of the right-hand side
    scanPos,      \* position of the scan in the inner type string
    parenDepth,   \* parenthesis depth of the scan
    current,      \* the element type being collected
    elem_types,   \* the element types split off so far
    upVerdict,    \* "accepted" or "rejected" by the type checker
    \* ---- the lexer over characters, with positions ----
    lxPc,         \* "lex", "done" (token list returned), "failed" (exception raised)
    lxSrc,        \* the source text, a sequence of characters
    lexer,        \* the Lexer object: [position, line, column]
    lxTokens,     \* the tokens appended so far
    lxError,      \* <<line, column>> of the raised SyntaxError, or <<>>
    \* ---- a generated function: its frame and the registers while it runs ----
    frPc,         \* "prologue", "body", "epilogue", "returned"
    frFn,         \* the function: [kind, nparams, body]
    frIdx,        \* index in frFn.body of the statement to run next
    regs,         \* the registers: rax, rbx, rbp, rsp, r12 .. r15
    mem,          \* the stack: address |-> word
    \* ---- a call sequence: the code emitted for an expression statement of Main, and its execution ----
    csPc,         \* "emit", "run", "done"
    csExpr,       \* the expression of the statement
    csCode,       \* the instructions generate_expression emitted for it
    csIp,         \* index in csCode of the next instruction
    csRegs,       \* the registers: rax, rbx, rcx, rsp and the six argument registers
    csMem,        \* the stack: address |-> word
    csLog,        \* the calls executed so far: [name, rsp, params]
    \* ---- a counter loop: the generic while lowering and the register-resident one, run on the same input ----
    whPc,         \* "emit", "run"
    whLoop,       \* the loop: [name, op, limit, sign, step, home]
    whStart,      \* the value of the counter when the loop is reached
    whGeneric,    \* the generic lowering: [state, store, iters]
    whFast,       \* the register-resident lowering: [state, rax, rbx, store, iters]
    \* ---- expressions: the tree parse_expression builds for the initializer of var x = e; ----
    prPc,         \* "lex", "parse", "done"
    prSrc,        \* the lexemes of e, and the semicolon
    prTokens,     \* the tokens produced so far: [type, value]
    prTree,       \* <<node>> for the tree parse_expression returned, <<>> before
    prAccepted,   \* "none" until the statement is parsed; then TRUE, or FALSE for a SyntaxError
    \* ---- typed declarations: the type checker on var T x = e; and on var T x; x = e; ----
    tdPc,         \* "decl", "assign", "done"
    tdStmt,       \* [unit, form, var_type, value]: where x is declared, which statement carries e
    tdTable,      \* the entry of x in the locals or globals table: <<type>>, <<>> before
    tdVerdict,    \* "none", "accepted", or "rejected" (ValidationError)
    \* ---- builtin names: one call statement in Main through resolver, type checker and validator ----
    bnPc,         \* "resolve", "type", "validate", "done"
    bnCall,       \* [name, args]: the FunctionCall, args the types of its arguments
    bnPassed,     \* the phases that returned without an error, in order
    bnError,      \* "none" or the message of the ValidationError raised
    \* ---- the code generator on one function with defer bodies: its calls of generate_statement ----
    emStatus,     \* "start", "body", "tail", "done", "RecursionError"
    emProg,       \* the statements of the function body
    emStack,      \* the statement lists being generated, innermost last: [stmts, i, labelled, after]
    emDefers,     \* defer_stack: the bodies of the DeferStmt appended so far
    emCount       \* the number of instructions emitted

drvVars == <<dpc, decls, srcFault, asmOnly, useKeystone, target, result, fs,
             failedPhase, codegenRan>>

incVars == <<incStatus, incStack, seen, disk, incOut>>

lpVars == <<lpStatus, lpSrc, lpTokens, lpAccepted>>

semVars == <<semPc, semProg, semRejectedBy, semError>>

dfVars == <<dfStatus, dfProg, dfCode, rpc, rax, rstack, rvar, rlog, retValue, iters>>

ixVars == <<ixPc, ixKind, ixBase, ixHeader, ixIndex, rbx, rcx, rdx, ixAccess, ixExit>>

gcVars == <<gcPc, heap, vyl_head, roots, scanAt, sweepCur, sweepPrev, marked, freed,
            listAtCall>>

callVars == <<callPc, callee, nargs, callVerdict, passedArgs>>

asVars == <<asPc, asProg, asRejectedBy>>

upVars == <<upPc, upValue, upNames, val_type,
            scanPos, parenDepth, current, elem_types, upVerdict>>

lxVars == <<lxPc, lxSrc, lexer, lxTokens, lxError>>

frVars == <<frPc, frFn, frIdx, regs, mem>>

csVars == <<csPc, csExpr, csCode, csIp, csRegs, csMem, csLog>>

whVars == <<whPc, whLoop, whStart, whGeneric, whFast>>

prVars == <<prPc, prSrc, prTokens, prTree, prAccepted>>

tdVars == <<tdPc, tdStmt, tdTable, tdVerdict>>

bnVars == <<bnPc, bnCall, bnPassed, bnError>>

emVars == <<emStatus, emProg, emStack, emDefers, emCount>>

vars == <<drvVars, incVars, lpVars, semVars, dfVars, ixVars, gcVars, callVars, asVars, upVars, lxVars, frVars, csVars, whVars, prVars, tdVars, bnVars, emVars>>

(***************************************************************************)
(* Bounds                                                                  *)
(***************************************************************************)
MaxDecls == 2

(***************************************************************************)
(* Generic helpers                                                         *)
(***************************************************************************)
SeqsUpTo(S, n) == UNION {[1..k -> S] : k \in 0..n}

(***************************************************************************)
(* Idle values of each part's variables                                    *)
(***************************************************************************)
DrvIdle ==
    /\ dpc = "idle"
    /\ decls = <<>>
    /\ srcFault = "none"
    /\ asmOnly = FALSE
    /\ useKeystone = FALSE
    /\ target = "elf"
    /\ result = "none"
    /\ fs = {}
    /\ failedPhase = "none"
    /\ codegenRan = FALSE

IncIdle ==
    /\ incStatus = "idle"
    /\ incStack = <<>>
    /\ seen = {}
    /\ disk = <<>>
    /\ incOut = <<>>

LpIdle ==
    /\ lpStatus = "idle"
    /\ lpSrc = <<>>
    /\ lpTokens = <<>>
    /\ lpAccepted = "none"

SemIdle ==
    /\ semPc = "idle"
    /\ semProg = <<>>
    /\ semRejectedBy = "none"
    /\ semError = "none"

DfIdle ==
    /\ dfStatus = "idle"
    /\ dfProg = <<>>
    /\ dfCode = <<>>
    /\ rpc = 0
    /\ rax = 0
    /\ rstack = <<>>
    /\ rvar = <<>>
    /\ rlog = <<>>
    /\ retValue = <<>>
    /\ iters = 0

IxIdle ==
    /\ ixPc = "idle"
    /\ ixKind = "none"
    /\ ixBase = 0
    /\ ixHeader = 0
    /\ ixIndex = 0
    /\ rbx = 0
    /\ rcx = 0
    /\ rdx = 0
    /\ ixAccess = <<>>
    /\ ixExit = <<>>

GcIdle ==
    /\ gcPc = "idle"
    /\ heap = <<>>
    /\ vyl_head = 0
    /\ roots = <<>>
    /\ scanAt = 0
    /\ sweepCur = 0
    /\ sweepPrev = 0
    /\ marked = {}
    /\ freed = {}
    /\ listAtCall = <<>>

CallIdle ==
    /\ callPc = "idle"
    /\ callee = <<>>
    /\ nargs = 0
    /\ callVerdict = "none"
    /\ passedArgs = <<>>

AsIdle ==
    /\ asPc = "idle"
    /\ asProg = <<>>
    /\ asRejectedBy = "none"

UpIdle ==
    /\ upPc = "idle"
    /\ upValue = <<>>
    /\ upNames = 0
    /\ val_type = <<>>
    /\ scanPos = 0
    /\ parenDepth = 0
    /\ current = <<>>
    /\ elem_types = <<>>
    /\ upVerdict = "none"

LxIdle ==
    /\ lxPc = "idle"
    /\ lxSrc = <<>>
    /\ lexer = <<>>
    /\ lxTokens = <<>>
    /\ lxError = <<>>

FrIdle ==
    /\ frPc = "idle"
    /\ frFn = <<>>
    /\ frIdx = 0
    /\ regs = <<>>
    /\ mem = <<>>

CsIdle ==
    /\ csPc = "idle"
    /\ csExpr = <<>>
    /\ csCode = <<>>
    /\ csIp = 0
    /\ csRegs = <<>>
    /\ csMem = <<>>
    /\ csLog = <<>>

WhIdle ==
    /\ whPc = "idle"
    /\ whLoop = <<>>
    /\ whStart = 0
    /\ whGeneric = <<>>
    /\ whFast = <<>>

PrIdle ==
    /\ prPc = "idle"
    /\ prSrc = <<>>
    /\ prTokens = <<>>
    /\ prTree = <<>>
    /\ prAccepted = "none"

TdIdle ==
    /\ tdPc = "idle"
    /\ tdStmt = <<>>
    /\ tdTable = <<>>
    /\ tdVerdict = "none"

BnIdle ==
    /\ bnPc = "idle"
    /\ bnCall = <<>>
    /\ bnPassed = <<>>
    /\ bnError = "none"

EmIdle ==
    /\ emStatus = "idle"
    /\ emProg = <<>>
    /\ emStack = <<>>
    /\ emDefers = <<>>
    /\ emCount = 0

(***************************************************************************)
(* DRIVER: compile_vyl                                                     *)
(***************************************************************************)
DeclKinds == {"VarDecl", "FunctionDef", "StructDef", "EnumDef", "InterfaceDef"}

DeclNames == {"Main", "f"}

SrcFaults == {"none", "include", "lex", "parse", "resolve", "type",
              "validate", "codegen"}

Targets == {"elf", "mach", "pe", "other"}

\* names registered by the first pass for one kind of declaration
NamesOf(ds, kind) == {ds[i][2] : i \in {j \in DOMAIN ds : ds[j][1] = kind}}

\* two declarations of one of the given kinds share a name
HasDuplicate(ds, kinds) ==
    \E i, j \in DOMAIN ds :
        /\ i < j
        /\ ds[i][1] = ds[j][1]
        /\ ds[i][1] \in kinds
        /\ ds[i][2] = ds[j][2]

HasMain(ds) == "Main" \in NamesOf(ds, "FunctionDef")

\* resolve_program's "Main" test; the mutant drops it
ResolverRequiresMainDropped(ds) == TRUE

ResolverRequiresMain(ds) == HasMain(ds)

\* resolve_program: TRUE iff it returns without raising
ResolveProgramOk(ds, fault) ==
    /\ ~HasDuplicate(ds, DeclKinds)
    /\ ResolverRequiresMain(ds)
    /\ fault # "resolve"

\* type_check: TRUE iff it returns without raising
TypeCheckOk(ds, fault) ==
    /\ ~HasDuplicate(ds, {"VarDecl", "FunctionDef"})
    /\ HasMain(ds)
    /\ fault # "type"

\* validate_program: TRUE iff it returns without raising
ValidateProgramOk(ds, fault) ==
    /\ ~HasDuplicate(ds, {"VarDecl", "FunctionDef"})
    /\ HasMain(ds)
    /\ fault # "validate"

DrvInit ==
    /\ dpc = "includes"
    /\ decls \in SeqsUpTo(DeclKinds \X DeclNames, MaxDecls)
    /\ srcFault \in SrcFaults
    /\ asmOnly \in BOOLEAN
    /\ useKeystone \in BOOLEAN
    /\ target \in Targets
    /\ result = "none"
    /\ fs = {}
    /\ failedPhase = "none"
    /\ codegenRan = FALSE
    /\ IncIdle
    /\ LpIdle
    /\ SemIdle
    /\ DfIdle
    /\ IxIdle
    /\ GcIdle
    /\ CallIdle
    /\ AsIdle
    /\ UpIdle
    /\ LxIdle
    /\ FrIdle
    /\ CsIdle
    /\ WhIdle
    /\ PrIdle
    /\ TdIdle
    /\ BnIdle
    /\ EmIdle

DrvInputsUnchanged ==
    /\ UNCHANGED <<decls, srcFault, asmOnly, useKeystone, target>>
    /\ UNCHANGED <<incVars, lpVars, semVars, dfVars, ixVars, gcVars, callVars, asVars, upVars, lxVars, frVars, csVars, whVars, prVars, tdVars, bnVars, emVars>>

\* an exception reaches one of the except clauses: compile_vyl returns False
ReturnFalse(phase) ==
    /\ dpc' = "done"
    /\ result' = FALSE
    /\ failedPhase' = phase

ReturnTrue ==
    /\ dpc' = "done"
    /\ result' = TRUE
    /\ failedPhase' = "none"

Advance(next) ==
    /\ dpc' = next
    /\ UNCHANGED <<result, failedPhase>>

PreprocessStep ==
    /\ dpc = "includes"
    /\ IF srcFault = "include" THEN ReturnFalse("includes") ELSE Advance("lex")
    /\ UNCHANGED <<fs, codegenRan>>
    /\ DrvInputsUnchanged

TokenizeStep ==
    /\ dpc = "lex"
    /\ IF srcFault = "lex" THEN ReturnFalse("lex") ELSE Advance("parse")
    /\ UNCHANGED <<fs, codegenRan>>
    /\ DrvInputsUnchanged

ParseStep ==
    /\ dpc = "parse"
    /\ IF srcFault = "parse" THEN ReturnFalse("parse") ELSE Advance("resolve")
    /\ UNCHANGED <<fs, codegenRan>>
    /\ DrvInputsUnchanged

ResolveStep ==
    /\ dpc = "resolve"
    /\ IF ResolveProgramOk(decls, srcFault)
          THEN Advance("typecheck")
          ELSE ReturnFalse("resolve")
    /\ UNCHANGED <<fs, codegenRan>>
    /\ DrvInputsUnchanged

TypeCheckStep ==
    /\ dpc = "typecheck"
    /\ IF TypeCheckOk(decls, srcFault)
          THEN Advance("validate")
          ELSE ReturnFalse("typecheck")
    /\ UNCHANGED <<fs, codegenRan>>
    /\ DrvInputsUnchanged

ValidateStep ==
    /\ dpc = "validate"
    /\ IF ValidateProgramOk(decls, srcFault)
          THEN Advance("codegen")
          ELSE ReturnFalse("validate")
    /\ UNCHANGED <<fs, codegenRan>>
    /\ DrvInputsUnchanged

CodegenStep ==
    /\ dpc = "codegen"
    /\ codegenRan' = TRUE
    /\ IF srcFault = "codegen" THEN ReturnFalse("codegen") ELSE Advance("write_asm")
    /\ UNCHANGED fs
    /\ DrvInputsUnchanged

\* with open(asm_file, 'w') as f: f.write(assembly)
WriteAsmStep ==
    /\ dpc = "write_asm"
    /\ \E opened \in BOOLEAN :
          IF opened
             THEN /\ fs' = fs \cup {"asm"}
                  /\ Advance("keystone")
             ELSE /\ fs' = fs
                  /\ ReturnFalse("write_asm")
    /\ UNCHANGED codegenRan
    /\ DrvInputsUnchanged

\* the use_keystone block, then the generate_assembly_only return
KeystoneStep ==
    /\ dpc = "keystone"
    /\ \E assembled \in BOOLEAN :
          IF useKeystone /\ ~assembled
             THEN /\ fs' = fs
                  /\ ReturnFalse("keystone")
             ELSE /\ fs' = IF useKeystone THEN fs \cup {"bin"} ELSE fs
                  /\ IF asmOnly THEN ReturnTrue ELSE Advance("link")
    /\ UNCHANGED codegenRan
    /\ DrvInputsUnchanged

\* Step 4: assemble and link per target
LinkStep ==
    /\ dpc = "link"
    /\ \E toolFound \in BOOLEAN, toolOk \in BOOLEAN :
          IF target = "other" \/ ~toolFound \/ ~toolOk
             THEN /\ fs' = fs
                  /\ ReturnFalse("link")
             ELSE /\ fs' = IF target = "elf"
                              THEN (fs \cup {"exe"}) \ {"asm"}
                              ELSE fs \cup {"obj"}
                  /\ ReturnTrue
    /\ UNCHANGED codegenRan
    /\ DrvInputsUnchanged

DrvNext ==
    \/ PreprocessStep
    \/ TokenizeStep
    \/ ParseStep
    \/ ResolveStep
    \/ TypeCheckStep
    \/ ValidateStep
    \/ CodegenStep
    \/ WriteAsmStep
    \/ KeystoneStep
    \/ LinkStep

SpecDriver == DrvInit /\ [][DrvNext]_vars

\* C2: whenever compile_vyl returns False, no output artifact written by the
\* invocation exists afterwards
C2_NoArtifactOnFailure == (dpc = "done" /\ result = FALSE) => fs = {}

\* C4: a program without a top-level function Main is rejected no later than
\* the resolver: compile_vyl returns False, nothing is written, and the code
\* generator is never reached
C4_MissingMainRejected ==
    (dpc = "done" /\ ~HasMain(decls)) =>
        /\ result = FALSE
        /\ fs = {}
        /\ ~codegenRan
        /\ failedPhase \in {"includes", "lex", "parse", "resolve"}

C4_Witness ==
    /\ dpc = "done"
    /\ ~HasMain(decls)
    /\ Len(decls) = MaxDecls
    /\ failedPhase = "resolve"
    /\ ~HasDuplicate(decls, DeclKinds)

(***************************************************************************)
(* INCLUDE PREPROCESSING: preprocess_includes                              *)
(*                                                                         *)
(* A directory is its depth below the root source's directory (0 = r,      *)
(* 1 = r/s, ...); a resolved path is <<directory, file name>>; a relative  *)
(* path is <<number of directories descended, file name>>.                 *)
(* A line is [kw, path, semi]: kw is the first word ("include", "import",  *)
(* or "decl" for an ordinary declaration, whose path names the file it was *)
(* written in); the preprocessor's own lines have kw "begin", "end" and    *)
(* "blank".                                                                *)
(***************************************************************************)
MaxLines == 2

RootId == <<0, "main">>

\* the directories that exist on disk
Dirs == {0, 1}

RelPaths == {<<0, "a">>, <<1, "b">>}

DeclLine(file) == [kw |-> "decl", path |-> file, semi |-> TRUE]

IncludeLines ==
    {[kw |-> "include", path |-> <<0, "a">>, semi |-> FALSE],
     [kw |-> "import", path |-> <<1, "b">>, semi |-> TRUE]}

BeginLine(rel) == [kw |-> "begin", path |-> rel, semi |-> FALSE]

EndLine(rel) == [kw |-> "end", path |-> rel, semi |-> FALSE]

BlankLine == [kw |-> "blank", path |-> <<0, "">>, semi |-> FALSE]

\* the texts a file may hold
TextsOf(file) == SeqsUpTo({DeclLine(file)} \cup IncludeLines, MaxLines)

\* INCLUDE_PATTERN.match(line)
IsIncludeLine(l) == l.kw \in {"include", "import"}

\* (base_dir / rel_path).resolve()
ResolvePath(baseDir, rel) == <<baseDir + rel[1], rel[2]>>

\* the base directory handed to the recursive call, as a mutant would pass it
IncludeBaseDirOfIncluder(includePath, baseDir) == baseDir

\* include_path.parent
IncludeBaseDir(includePath, baseDir) == includePath[1]

IncTop == incStack[Len(incStack)]

IncLine == IncTop.text[IncTop.i]

IncAtLine == incStatus = "run" /\ incStack # <<>> /\ IncTop.i <= Len(IncTop.text)

SetTop(stk, frame) == [stk EXCEPT ![Len(stk)] = frame]

\* "\n".join(result) + "\n", as lines
JoinedLines(out) == IF out = <<>> THEN <<BlankLine>> ELSE out

IncInit ==
    /\ incStatus = "run"
    /\ \E text \in TextsOf(RootId) :
          /\ incStack = <<[dir |-> 0, text |-> text, i |-> 1, out |-> <<>>,
                           rel |-> RootId]>>
          /\ disk = [f \in {RootId} |-> text]
    /\ seen = {}
    /\ incOut = <<>>
    /\ DrvIdle
    /\ LpIdle
    /\ SemIdle
    /\ DfIdle
    /\ IxIdle
    /\ GcIdle
    /\ CallIdle
    /\ AsIdle
    /\ UpIdle
    /\ LxIdle
    /\ FrIdle
    /\ CsIdle
    /\ WhIdle
    /\ PrIdle
    /\ TdIdle
    /\ BnIdle
    /\ EmIdle

IncOnly == UNCHANGED <<drvVars, lpVars, semVars, dfVars, ixVars, gcVars, callVars, asVars, upVars, lxVars, frVars, csVars, whVars, prVars, tdVars, bnVars, emVars>>

\* result.append(line)
CopyLine ==
    /\ IncAtLine
    /\ ~IsIncludeLine(IncLine)
    /\ incStack' = SetTop(incStack,
                          [IncTop EXCEPT !.out = Append(@, IncLine), !.i = @ + 1])
    /\ UNCHANGED <<incStatus, seen, disk, incOut>>
    /\ IncOnly

\* raise SyntaxError("Cyclic include detected ...")
RaiseCyclic ==
    /\ IncAtLine
    /\ IsIncludeLine(IncLine)
    /\ ResolvePath(IncTop.dir, IncLine.path) \in seen
    /\ incStatus' = "cyclic"
    /\ UNCHANGED <<incStack, seen, disk, incOut>>
    /\ IncOnly

\* raise FileNotFoundError("Include not found ...")
RaiseMissing ==
    /\ IncAtLine
    /\ IsIncludeLine(IncLine)
    /\ ResolvePath(IncTop.dir, IncLine.path) \notin seen
    /\ incStatus' = "missing"
    /\ UNCHANGED <<incStack, seen, disk, incOut>>
    /\ IncOnly

\* seen.add; read_text; append the begin comment; enter the recursive call
EnterInclude ==
    /\ IncAtLine
    /\ IsIncludeLine(IncLine)
    /\ LET path == ResolvePath(IncTop.dir, IncLine.path) IN
          /\ path \notin seen
          /\ path[1] \in Dirs
          /\ \E text \in TextsOf(path) :
                /\ disk' = [f \in DOMAIN disk \cup {path} |->
                               IF f = path THEN text ELSE disk[f]]
                /\ incStack' =
                      Append(SetTop(incStack,
                                    [IncTop EXCEPT !.out =
                                        Append(@, BeginLine(IncLine.path))]),
                             [dir |-> IncludeBaseDir(path, IncTop.dir),
                              text |-> text, i |-> 1, out |-> <<>>,
                              rel |-> IncLine.path])
          /\ seen' = seen \cup {path}
    /\ UNCHANGED <<incStatus, incOut>>
    /\ IncOnly

\* return of a recursive call: the caller appends the returned text and the
\* end comment, and continues with its next line
ReturnInclude ==
    /\ incStatus = "run"
    /\ Len(incStack) > 1
    /\ IncTop.i > Len(IncTop.text)
    /\ LET caller == incStack[Len(incStack) - 1]
           stk == SubSeq(incStack, 1, Len(incStack) - 1) IN
          incStack' = SetTop(stk,
              [caller EXCEPT
                  !.out = @ \o JoinedLines(IncTop.out) \o
                          <<BlankLine, EndLine(IncTop.rel)>>,
                  !.i = @ + 1])
    /\ UNCHANGED <<incStatus, seen, disk, incOut>>
    /\ IncOnly

\* return of the outermost call
ReturnRoot ==
    /\ incStatus = "run"
    /\ Len(incStack) = 1
    /\ IncTop.i > Len(IncTop.text)
    /\ incOut' = JoinedLines(IncTop.out)
    /\ incStack' = <<>>
    /\ incStatus' = "done"
    /\ UNCHANGED <<seen, disk>>
    /\ IncOnly

IncNext ==
    \/ CopyLine
    \/ RaiseCyclic
    \/ RaiseMissing
    \/ EnterInclude
    \/ ReturnInclude
    \/ ReturnRoot

SpecInclude == IncInit /\ [][IncNext]_vars

\* the declarations of a text with every include line replaced, recursively,
\* by the declarations of the file it names relative to the including file
RECURSIVE Inlined(_, _, _)
Inlined(text, dir, fuel) ==
    IF text = <<>> THEN <<>>
    ELSE LET l == Head(text)
             path == ResolvePath(dir, l.path)
             here == IF ~IsIncludeLine(l) THEN <<l>>
                     ELSE IF path \in DOMAIN disk /\ fuel > 0
                          THEN Inlined(disk[path], path[1], fuel - 1)
                          ELSE <<l>>
         IN here \o Inlined(Tail(text), dir, fuel)

CodeLines(text) == SelectSeq(text, LAMBDA l : l.kw \notin {"begin", "end", "blank"})

\* C6: when preprocessing returns, no include/import line survives and the
\* text is the source with every such line replaced by the contents of the
\* file it names relative to the including file, recursively
C6_IncludesInlined ==
    incStatus = "done" =>
        /\ \A k \in DOMAIN incOut : ~IsIncludeLine(incOut[k])
        /\ CodeLines(incOut) = Inlined(disk[RootId], 0, Cardinality(DOMAIN disk))

\* a file in a subdirectory includes a file by a path relative to itself
C6_Witness ==
    /\ incStatus = "done"
    /\ <<1, "b">> \in seen
    /\ <<1, "a">> \in seen
    /\ \E k \in DOMAIN incOut : incOut[k] = DeclLine(<<1, "a">>)
    /\ \E k \in DOMAIN incOut : incOut[k] = DeclLine(RootId)

\* the preprocessor runs to its end: each step of the one thread is taken
SpecIncludeFair == SpecInclude /\ WF_vars(IncNext)

\* the resolved path of the file the k-th call of preprocess_includes reads
FramePath(k) ==
    IF k = 1 THEN RootId ELSE ResolvePath(incStack[k - 1].dir, incStack[k].rel)

\* the files being read: the root and the chain of includes down to the
\* current file
OpenFiles == {FramePath(k) : k \in DOMAIN incStack}

\* the file the current include line names
IncTarget == ResolvePath(IncTop.dir, IncLine.path)

\* the files the include lines of a file on disk name
IncludeTargets(f) ==
    {ResolvePath(f[1], disk[f][k].path) :
        k \in {j \in DOMAIN disk[f] : IsIncludeLine(disk[f][j])}}

\* the files reached from the files S by at most n further includes
RECURSIVE IncludedFrom(_, _)
IncludedFrom(S, n) ==
    IF n = 0 THEN S
    ELSE IncludedFrom(S \cup UNION {IncludeTargets(f) : f \in S \cap DOMAIN disk}, n - 1)

IncludeGraphSound ==
    \A f \in DOMAIN disk :
        /\ IncludeTargets(f) \subseteq DOMAIN disk
        /\ f \notin IncludedFrom(IncludeTargets(f), Cardinality(DOMAIN disk))

\* C28: include preprocessing ends; it ends with the cycle error only if the
\* file named is one of the files being read (a cycle of includes), a file
\* included again after its first inclusion was completed is not a cycle;
\* and it ends without an error only if no include target is missing and no
\* file includes itself through other files
C28_IncludeTerminates ==
    /\ <>(incStatus # "run")
    /\ [](incStatus = "cyclic" => IncTarget \in OpenFiles)
    /\ [](incStatus = "done" => IncludeGraphSound)

(***************************************************************************)
(* LEXER AND PARSER: tokenize, parse                                       *)
(*                                                                         *)
(* The source is a function Main whose body is one if / elif / else chain  *)
(* with comparison conditions over integer literals and empty blocks.      *)
(* A parser position is an index into the token sequence; position 0       *)
(* stands for a raised SyntaxError.                                        *)
(***************************************************************************)
MaxElifs == 1

ComparisonLexemes == {"<", ">", "==", "!=", "<=", ">="}

\* KEYWORDS
KEYWORDS ==
    [w \in {"var", "if", "else", "while", "for", "in", "struct", "new",
            "import", "int", "dec", "string", "bool", "true", "false"} |->
        CASE w = "var" -> "VAR"
          [] w = "if" -> "IF"
          [] w = "else" -> "ELSE"
          [] w = "while" -> "WHILE"
          [] w = "for" -> "FOR"
          [] w = "in" -> "IN"
          [] w = "struct" -> "STRUCT"
          [] w = "new" -> "NEW"
          [] w = "import" -> "IMPORT"
          [] w = "int" -> "INT_TYPE"
          [] w = "dec" -> "DEC_TYPE"
          [] w = "string" -> "STRING_TYPE"
          [] w = "bool" -> "BOOL_TYPE"
          [] w = "true" -> "TRUE"
          [] w = "false" -> "FALSE"]

\* lexemes that start with a letter or an underscore
WordLexemes == {"Main", "if", "elif", "else", "a", "b", "c", "d"}

\* lexemes that start with a digit
NumberLexemes == {"1", "2"}

\* the two-character operators next_token recognises
TwoCharOperators == {"==", "!=", "<=", ">=", ".."}

\* the single-character tokens of next_token
SingleCharTokenType(c) ==
    CASE c = "<" -> "LT"
      [] c = ">" -> "GT"
      [] c = "(" -> "LPAREN"
      [] c = ")" -> "RPAREN"
      [] c = "{" -> "LBRACE"
      [] c = "}" -> "RBRACE"
      [] c = "=" -> "ASSIGN"
      [] c = ";" -> "SEMICOLON"
      [] c = "+" -> "PLUS"
      [] c = "-" -> "MINUS"
      [] c = "*" -> "STAR"
      [] c = "/" -> "SLASH"
      [] OTHER -> "SyntaxError"

\* next_token: the type of the token made from one lexeme
NextTokenType(lexeme) ==
    IF lexeme \in NumberLexemes THEN "INTEGER"
    ELSE IF lexeme \in WordLexemes
         THEN IF lexeme \in DOMAIN KEYWORDS THEN KEYWORDS[lexeme] ELSE "IDENTIFIER"
    ELSE IF lexeme \in TwoCharOperators THEN lexeme
    ELSE SingleCharTokenType(lexeme)

\* ---- the parser, over a sequence of token types ----
TokAt(ts, p) == IF p \in DOMAIN ts THEN ts[p] ELSE "None"

\* consume(expected_type)
Consume(ts, p, expected) == IF p # 0 /\ TokAt(ts, p) = expected THEN p + 1 ELSE 0

\* the token types parse_comparison loops on
ComparisonTokenTypes == {"LT", "GT", "LE", "GE", "EQ", "NE"}

\* parse_primary, for literals and plain identifiers
ParsePrimary(ts, p) ==
    IF p # 0 /\ TokAt(ts, p) \in {"INTEGER", "IDENTIFIER"} THEN p + 1 ELSE 0

\* parse_comparison: an operand, then (operator operand)*
RECURSIVE ParseComparisonRest(_, _)
ParseComparisonRest(ts, p) ==
    IF p # 0 /\ TokAt(ts, p) \in ComparisonTokenTypes
       THEN ParseComparisonRest(ts, ParsePrimary(ts, p + 1))
       ELSE p

ParseExpression(ts, p) == ParseComparisonRest(ts, ParsePrimary(ts, p))

\* the lookahead of parse_statement: the position after the parenthesis that
\* closes the one opened just before p
RECURSIVE AfterMatchingParen(_, _, _)
AfterMatchingParen(ts, p, depth) ==
    IF p \notin DOMAIN ts THEN p
    ELSE IF TokAt(ts, p) = "LPAREN" THEN AfterMatchingParen(ts, p + 1, depth + 1)
    ELSE IF TokAt(ts, p) = "RPAREN"
         THEN IF depth = 1 THEN p + 1 ELSE AfterMatchingParen(ts, p + 1, depth - 1)
    ELSE AfterMatchingParen(ts, p + 1, depth)

\* parse_param: name [: type] [= default]
ParseParam(ts, p) ==
    LET q == Consume(ts, p, "IDENTIFIER") IN
        IF q # 0 /\ TokAt(ts, q) = "ASSIGN" THEN ParseExpression(ts, q + 1) ELSE q

RECURSIVE ParseStatement(_, _)
RECURSIVE ParseBlockBody(_, _)
RECURSIVE ParseElifs(_, _)

\* parse_block
ParseBlock(ts, p) == Consume(ts, ParseBlockBody(ts, Consume(ts, p, "LBRACE")), "RBRACE")

ParseBlockBody(ts, p) ==
    IF p = 0 \/ TokAt(ts, p) \in {"RBRACE", "None"} THEN p
    ELSE ParseBlockBody(ts, ParseStatement(ts, p))

\* the elif loop of parse_if
ParseElifs(ts, p) ==
    IF p # 0 /\ TokAt(ts, p) = "ELIF"
       THEN ParseElifs(ts,
                ParseBlock(ts,
                    Consume(ts, ParseExpression(ts, Consume(ts, p + 1, "LPAREN")),
                            "RPAREN")))
       ELSE p

\* parse_if
ParseIf(ts, p) ==
    LET cond == ParseExpression(ts, Consume(ts, Consume(ts, p, "IF"), "LPAREN"))
        thenEnd == ParseBlock(ts, Consume(ts, cond, "RPAREN"))
        elifEnd == ParseElifs(ts, thenEnd)
    IN IF elifEnd # 0 /\ TokAt(ts, elifEnd) = "ELSE"
          THEN ParseBlock(ts, elifEnd + 1)
          ELSE elifEnd

\* parse_shorthand_function_decl, with at most one parameter
ParseShorthandFunctionDecl(ts, p) ==
    LET open == Consume(ts, Consume(ts, p, "IDENTIFIER"), "LPAREN")
        params == IF open # 0 /\ TokAt(ts, open) # "RPAREN"
                     THEN ParseParam(ts, open) ELSE open
    IN ParseBlock(ts, Consume(ts, params, "RPAREN"))

\* parse_assignment_or_call followed by the required semicolon, for a call
\* with one argument
ParseCallStatement(ts, p) ==
    LET open == Consume(ts, Consume(ts, p, "IDENTIFIER"), "LPAREN")
        args == IF open # 0 /\ TokAt(ts, open) # "RPAREN"
                   THEN ParseExpression(ts, open) ELSE open
    IN Consume(ts, Consume(ts, args, "RPAREN"), "SEMICOLON")

\* parse_statement
ParseStatement(ts, p) ==
    IF p = 0 THEN 0
    ELSE CASE TokAt(ts, p) = "SEMICOLON" -> p + 1
           [] TokAt(ts, p) = "IF" -> ParseIf(ts, p)
           [] TokAt(ts, p) = "IDENTIFIER" /\ TokAt(ts, p + 1) = "LPAREN" ->
                 IF TokAt(ts, AfterMatchingParen(ts, p + 2, 1)) \in {"LBRACE", "ARROW"}
                    THEN ParseShorthandFunctionDecl(ts, p)
                    ELSE ParseCallStatement(ts, p)
           [] OTHER -> 0

\* Parser.parse: statements up to EOF
RECURSIVE ParseProgram(_, _)
ParseProgram(ts, p) ==
    IF p = 0 \/ TokAt(ts, p) \in {"EOF", "None"} THEN p
    ELSE ParseProgram(ts, ParseStatement(ts, p))

\* ---- the sources ----
CondLexemes(op) == <<"(", "2", op, "1", ")">>

RECURSIVE ElifLexemes(_)
ElifLexemes(ops) ==
    IF ops = <<>> THEN <<>>
    ELSE <<"elif">> \o CondLexemes(Head(ops)) \o <<"{", "}">> \o ElifLexemes(Tail(ops))

IfChainSource(ops, hasElse) ==
    <<"Main", "(", ")", "{", "if">> \o CondLexemes(Head(ops)) \o <<"{", "}">>
        \o ElifLexemes(Tail(ops))
        \o (IF hasElse THEN <<"else", "{", "}">> ELSE <<>>)
        \o <<"}">>

LpInit ==
    /\ lpStatus = "lex"
    /\ \E ops \in SeqsUpTo(ComparisonLexemes, MaxElifs + 1) \ {<<>>}, hasElse \in BOOLEAN :
          lpSrc = IfChainSource(ops, hasElse)
    /\ lpTokens = <<>>
    /\ lpAccepted = "none"
    /\ DrvIdle
    /\ IncIdle
    /\ SemIdle
    /\ DfIdle
    /\ IxIdle
    /\ GcIdle
    /\ CallIdle
    /\ AsIdle
    /\ UpIdle
    /\ LxIdle
    /\ FrIdle
    /\ CsIdle
    /\ WhIdle
    /\ PrIdle
    /\ TdIdle
    /\ BnIdle
    /\ EmIdle

LpOnly == UNCHANGED <<drvVars, incVars, semVars, dfVars, ixVars, gcVars, callVars, asVars, upVars, lxVars, frVars, csVars, whVars, prVars, tdVars, bnVars, emVars>>

\* Lexer.tokenize: one call of next_token on a lexeme; an unexpected
\* character raises SyntaxError
LexToken ==
    /\ lpStatus = "lex"
    /\ Len(lpTokens) < Len(lpSrc)
    /\ LET type == NextTokenType(lpSrc[Len(lpTokens) + 1]) IN
          IF type = "SyntaxError"
             THEN /\ lpStatus' = "done"
                  /\ lpAccepted' = FALSE
                  /\ UNCHANGED lpTokens
             ELSE /\ lpTokens' = Append(lpTokens, type)
                  /\ UNCHANGED <<lpStatus, lpAccepted>>
    /\ UNCHANGED lpSrc
    /\ LpOnly

\* next_token at the end of the source: the EOF token ends tokenize
LexEOF ==
    /\ lpStatus = "lex"
    /\ Len(lpTokens) = Len(lpSrc)
    /\ lpTokens' = Append(lpTokens, "EOF")
    /\ lpStatus' = "parse"
    /\ UNCHANGED <<lpSrc, lpAccepted>>
    /\ LpOnly

\* parse(tokens)
ParseTokens ==
    /\ lpStatus = "parse"
    /\ lpAccepted' = (ParseProgram(lpTokens, 1) # 0)
    /\ lpStatus' = "done"
    /\ UNCHANGED <<lpSrc, lpTokens>>
    /\ LpOnly

LpNext ==
    \/ LexToken
    \/ LexEOF
    \/ ParseTokens

SpecLexParse == LpInit /\ [][LpNext]_vars

\* C5: every if / elif / else chain whose conditions use the comparison
\* operators is accepted by the lexer and the parser
C5_IfElifElseAccepted == lpStatus = "done" => lpAccepted = TRUE

(***************************************************************************)
(* SEMANTIC PASSES AND CODE GENERATION on a parsed program                 *)
(*                                                                         *)
(* The program declares the globals semProg.globals (integer variables     *)
(* with literal initializers) and one unit holding semProg.body:           *)
(*   "Main"      Main() { body }                                           *)
(*   "function"  f(params) { body }   and an empty Main                    *)
(*   "method"    struct S { Function m(params) { body } } and an empty Main*)
(*   "toplevel"  body as top-level statements, followed by an empty Main   *)
(* A statement is [k, name, e, body]:                                      *)
(*   VarDecl  var int name = e;       Call   a call of builtin with arg e  *)
(*   If       if (e < 1) { body }     For    for name in 0..3 { body }     *)
(*   Defer    defer { body }                                               *)
(* An expression is [k, name]: Lit, Id (a name), Interp (an interpolated   *)
(* string whose expression part is the name).                              *)
(***************************************************************************)
MaxStmts == 2

MaxInner == 1

VarNames == {"x", "y"}

Lit == [k |-> "Lit", name |-> ""]

Id(n) == [k |-> "Id", name |-> n]

Interp(n) == [k |-> "Interp", name |-> n]

Exprs == {Lit, Id("x"), Id("y"), Id("p"), Id("argc"), Interp("y")}

VarDeclStmt(n, e) == [k |-> "VarDecl", name |-> n, e |-> e, body |-> <<>>]

CallStmt(e) == [k |-> "Call", name |-> "", e |-> e, body |-> <<>>]

IfStmt(e, b) == [k |-> "If", name |-> "", e |-> e, body |-> b]

ForStmt(b) == [k |-> "For", name |-> "i", e |-> Lit, body |-> b]

DeferStmt(b) == [k |-> "Defer", name |-> "", e |-> Lit, body |-> b]

SimpleStmts ==
    {VarDeclStmt(n, e) : n \in VarNames, e \in Exprs} \cup {CallStmt(e) : e \in Exprs}

InnerBlocks == SeqsUpTo(SimpleStmts, MaxInner)

Stmts ==
    SimpleStmts
    \cup {IfStmt(Id(n), <<>>) : n \in VarNames}
    \cup {ForStmt(b) : b \in InnerBlocks}
    \cup {DeferStmt(b) : b \in InnerBlocks}

Units ==
    {[kind |-> "Main", params |-> {}],
     [kind |-> "function", params |-> {"p"}],
     [kind |-> "method", params |-> {}],
     [kind |-> "method", params |-> {"p"}],
     [kind |-> "toplevel", params |-> {}]}

\* names the passes accept without a declaration
PredefinedNames == {"argc", "argv"}

Failed == [ok |-> FALSE, locals |-> {}]

Passed(locals) == [ok |-> TRUE, locals |-> locals]

\* _resolve_expression / _type_of_expression / _validate_expression: TRUE iff
\* no ValidationError is raised; none of them looks inside an InterpString
CheckExpression(pass, e, locals, globals) ==
    CASE e.k = "Lit" -> TRUE
      [] e.k = "Interp" -> TRUE
      [] e.k = "Id" -> e.name \in PredefinedNames \cup locals \cup globals

RECURSIVE CheckStatement(_, _, _, _)
RECURSIVE CheckBlock(_, _, _, _)

\* _resolve_statement / _type_check_statement / _validate_statement: the
\* locals table after the statement, or Failed for a ValidationError.  The
\* resolver and the validator add a declared name before they look at its
\* initializer; the type checker adds it afterwards.
CheckStatement(pass, s, locals, globals) ==
    CASE s.k = "VarDecl" ->
            IF s.name \in locals THEN Failed
            ELSE IF CheckExpression(pass, s.e,
                        IF pass = "type_checker" THEN locals
                                                 ELSE locals \cup {s.name},
                        globals)
                 THEN Passed(locals \cup {s.name})
                 ELSE Failed
      [] s.k = "Call" ->
            IF CheckExpression(pass, s.e, locals, globals) THEN Passed(locals) ELSE Failed
      [] s.k = "If" ->
            IF /\ CheckExpression(pass, s.e, locals, globals)
               /\ CheckBlock(pass, s.body, locals, globals).ok
               THEN Passed(locals) ELSE Failed
      [] s.k = "For" ->
            IF CheckBlock(pass, s.body, locals \cup {s.name}, globals).ok
               THEN Passed(locals) ELSE Failed
      [] s.k = "Defer" ->
            IF CheckBlock(pass, s.body, locals, globals).ok
               THEN Passed(locals) ELSE Failed

\* the statements of a block, in order, on one locals table
CheckBlock(pass, stmts, locals, globals) ==
    IF stmts = <<>> THEN Passed(locals)
    ELSE LET r == CheckStatement(pass, Head(stmts), locals, globals) IN
            IF r.ok THEN CheckBlock(pass, Tail(stmts), r.locals, globals) ELSE Failed

\* the names of the VarDecl statements directly in a statement list
DirectDecls(stmts) == {stmts[i].name : i \in {j \in DOMAIN stmts : stmts[j].k = "VarDecl"}}

\* _register_global / _define_var raise on a second global of one name
DuplicateGlobal(prog) ==
    /\ prog.unit.kind = "toplevel"
    /\ \/ \E i \in DOMAIN prog.body :
             prog.body[i].k = "VarDecl" /\ prog.body[i].name \in prog.globals
       \/ \E i, j \in DOMAIN prog.body :
             /\ i < j
             /\ prog.body[i].k = "VarDecl"
             /\ prog.body[j].k = "VarDecl"
             /\ prog.body[i].name = prog.body[j].name

GlobalsOf(prog) ==
    IF prog.unit.kind = "toplevel" THEN prog.globals \cup DirectDecls(prog.body)
                                   ELSE prog.globals

\* resolve_program / type_check / validate_program, second pass
CheckProgram(pass, prog) ==
    LET G == GlobalsOf(prog) IN
    IF prog.unit.kind = "toplevel"
       THEN /\ ~DuplicateGlobal(prog)
            /\ \A i \in DOMAIN prog.body :
                  IF prog.body[i].k = "VarDecl"
                     THEN CheckExpression(pass, prog.body[i].e, {}, G)
                     ELSE CheckStatement(pass, prog.body[i], {}, G).ok
       ELSE CheckBlock(pass, prog.body,
                       prog.unit.params \cup
                           (IF prog.unit.kind = "method" THEN {"self"} ELSE {}),
                       G).ok

resolve_program(prog) == CheckProgram("resolver", prog)

type_check(prog) == CheckProgram("type_checker", prog)

validate_program(prog) == CheckProgram("validator", prog)

\* ---- code generation ----
\* collect_var_decls: the VarDecl names of a block and of the if / while / for
\* bodies in it; a defer body is not searched
RECURSIVE collect_var_decls(_)
collect_var_decls(stmts) ==
    IF stmts = <<>> THEN {}
    ELSE LET s == Head(stmts) IN
            (CASE s.k = "VarDecl" -> {s.name}
               [] s.k \in {"If", "For"} -> collect_var_decls(s.body)
               [] OTHER -> {})
            \cup collect_var_decls(Tail(stmts))

\* the state of CodeGenerator while it walks a body
GenState(ok, locals, defers) == [ok |-> ok, locals |-> locals, defers |-> defers]

\* generate_expression: TRUE iff no CodegenError is raised; the expression
\* part of an interpolated string is parsed and generated like any other
generate_expression(e, locals, globals) ==
    CASE e.k = "Lit" -> TRUE
      [] OTHER -> e.name \in PredefinedNames \cup locals \cup globals

RECURSIVE generate_statement(_, _, _)
RECURSIVE generate_block(_, _, _)

\* generate_statement
generate_statement(s, g, globals) ==
    CASE s.k = "VarDecl" ->
            GenState(/\ s.name \in g.locals \cup globals
                     /\ generate_expression(s.e, g.locals, globals),
                     g.locals, g.defers)
      [] s.k = "Call" ->
            GenState(generate_expression(s.e, g.locals, globals), g.locals, g.defers)
      [] s.k = "If" ->
            IF generate_expression(s.e, g.locals, globals)
               THEN generate_block(s.body, g, globals)
               ELSE GenState(FALSE, g.locals, g.defers)
      [] s.k = "For" ->
            generate_block(s.body, GenState(TRUE, g.locals \cup {s.name}, g.defers),
                           globals)
      [] s.k = "Defer" ->
            GenState(TRUE, g.locals, Append(g.defers, s))

generate_block(stmts, g, globals) ==
    IF stmts = <<>> \/ ~g.ok THEN g
    ELSE generate_block(Tail(stmts), generate_statement(Head(stmts), g, globals), globals)

\* _emit_deferred_statements: the bodies on defer_stack, last first
RECURSIVE emit_deferred_statements(_, _)
emit_deferred_statements(g, globals) ==
    IF g.defers = <<>> \/ ~g.ok THEN g
    ELSE LET last == g.defers[Len(g.defers)]
             rest == SubSeq(g.defers, 1, Len(g.defers) - 1)
             r == generate_block(last.body, GenState(TRUE, g.locals, g.defers), globals)
         IN emit_deferred_statements(GenState(r.ok, r.locals, rest), globals)

\* generate_function: the body, then the deferred bodies at the implicit return
generate_function(params, body, globals) ==
    LET g == generate_block(body,
                 GenState(TRUE, params \cup collect_var_decls(body), <<>>), globals)
    IN IF emit_deferred_statements(g, globals).ok THEN "ok" ELSE "CodegenError"

\* generate_method: unpacking a declared parameter raises ValueError; no
\* deferred bodies are emitted at the implicit return
generate_method(params, body, globals) ==
    IF params # {} THEN "ValueError"
    ELSE IF generate_block(body,
                GenState(TRUE, {"self"} \cup collect_var_decls(body), <<>>), globals).ok
         THEN "ok" ELSE "CodegenError"

\* the top-level statements that generate() hands to generate_statement
TopLevelStatements(body) == SelectSeq(body, LAMBDA s : s.k # "VarDecl")

\* CodeGenerator.generate
generate(prog) ==
    LET G == GlobalsOf(prog) IN
    CASE prog.unit.kind \in {"Main", "function"} ->
            generate_function(prog.unit.params, prog.body, G)
      [] prog.unit.kind = "method" ->
            generate_method(prog.unit.params, prog.body, G)
      [] prog.unit.kind = "toplevel" ->
            IF generate_block(TopLevelStatements(prog.body), GenState(TRUE, {}, <<>>), G).ok
               THEN "ok" ELSE "CodegenError"

SemInit ==
    /\ semPc = "resolve"
    /\ \E unit \in Units, globals \in SUBSET {"x"}, body \in SeqsUpTo(Stmts, MaxStmts) :
          semProg = [unit |-> unit, globals |-> globals, body |-> body]
    /\ semRejectedBy = "none"
    /\ semError = "none"
    /\ DrvIdle
    /\ IncIdle
    /\ LpIdle
    /\ DfIdle
    /\ IxIdle
    /\ GcIdle
    /\ CallIdle
    /\ AsIdle
    /\ UpIdle
    /\ LxIdle
    /\ FrIdle
    /\ CsIdle
    /\ WhIdle
    /\ PrIdle
    /\ TdIdle
    /\ BnIdle
    /\ EmIdle

SemOnly == UNCHANGED <<drvVars, incVars, lpVars, dfVars, ixVars, gcVars, callVars, asVars, upVars, lxVars, frVars, csVars, whVars, prVars, tdVars, bnVars, emVars>>

SemPass(pc, accepted, next) ==
    /\ semPc = pc
    /\ IF accepted
          THEN /\ semPc' = next
               /\ UNCHANGED <<semRejectedBy, semError>>
          ELSE /\ semPc' = "done"
               /\ semRejectedBy' = pc
               /\ semError' = "ValidationError"
    /\ UNCHANGED semProg
    /\ SemOnly

SemResolve == SemPass("resolve", resolve_program(semProg), "typecheck")

SemTypeCheck == SemPass("typecheck", type_check(semProg), "validate")

SemValidate == SemPass("validate", validate_program(semProg), "codegen")

SemCodegen ==
    /\ semPc = "codegen"
    /\ semPc' = "done"
    /\ LET r == generate(semProg) IN
          /\ semError' = IF r = "ok" THEN "none" ELSE r
          /\ semRejectedBy' = IF r = "ok" THEN "none" ELSE "codegen"
    /\ UNCHANGED semProg
    /\ SemOnly

SemNext ==
    \/ SemResolve
    \/ SemTypeCheck
    \/ SemValidate
    \/ SemCodegen

SpecSem == SemInit /\ [][SemNext]_vars

EarlierPasses == {"resolve", "typecheck", "validate"}

\* C1: for every program the resolver, the type checker and the validator
\* accept, code generation succeeds
C1_WellFormedCompiles ==
    (semPc = "done" /\ semRejectedBy \notin EarlierPasses) => semRejectedBy = "none"

\* ---- declaration before use, as the specification states it ----
ReadNames(e) == IF e.k = "Lit" THEN {} ELSE {e.name}

RECURSIVE DeclaredBeforeUse(_, _)
\* every name read in stmts is in `declared` or was declared by an earlier
\* statement of an enclosing block; a declaration's own name is not yet
\* declared in its initializer
DeclaredBeforeUse(stmts, declared) ==
    IF stmts = <<>> THEN TRUE
    ELSE LET s == Head(stmts) IN
         /\ CASE s.k = "VarDecl" -> ReadNames(s.e) \subseteq declared \ {s.name}
              [] s.k = "Call" -> ReadNames(s.e) \subseteq declared
              [] s.k = "If" -> /\ ReadNames(s.e) \subseteq declared
                               /\ DeclaredBeforeUse(s.body, declared)
              [] s.k = "For" -> DeclaredBeforeUse(s.body, declared \cup {s.name})
              [] s.k = "Defer" -> DeclaredBeforeUse(s.body, declared)
         /\ DeclaredBeforeUse(Tail(stmts),
                IF s.k = "VarDecl" THEN declared \cup {s.name} ELSE declared)

InBody(prog) == prog.unit.kind # "toplevel"

\* C3: a function or method body that reads a name which is no parameter, no
\* global and no local declared earlier is rejected by the resolver, the type
\* checker or the validator
C3_DeclarationBeforeUse ==
    (/\ semPc = "done"
     /\ InBody(semProg)
     /\ ~DeclaredBeforeUse(semProg.body,
                           semProg.unit.params \cup semProg.globals \cup PredefinedNames))
        => semRejectedBy \in EarlierPasses

(***************************************************************************)
(* DEFER AND `?`: the code emitted for one function and its execution      *)
(*                                                                         *)
(* A body statement is [k, id, body]:                                      *)
(*   Defer   defer { <body number id> }      Return  return g();           *)
(*   Try     var r = g()?;                   If      if (c()) { body }     *)
(*   While   while (c()) { body }                                          *)
(* An instruction is [op, arg]:                                            *)
(*   eval_ret, eval_try  the call g(): %rax receives its result            *)
(*   cond, condw         the call c() of an if / a while: %rax receives 0  *)
(*                       or 1                                              *)
(*   mov0                movq $0, %rax                                     *)
(*   jge, je, jew, jmp   cmpq $0, %rax and the jump to label arg (jew is   *)
(*                       the je that leaves a loop); jmp is unconditional  *)
(*   label               the label arg                                     *)
(*   push, pop           pushq %rax, popq %rax                             *)
(*   body                the statements of deferred body arg               *)
(*   store               movq %rax, <slot of r>                            *)
(*   ret                 the epilogue: leave; ret                          *)
(* and two markers that stand for no emitted code and only record events:  *)
(*   reg                 control passes the defer statement of body arg    *)
(*   retval              the value of the return in progress is in %rax    *)
(***************************************************************************)
MaxBody == 2

MaxNest == 2

MaxIter == 2

DeferIds == {1, 2}

\* the values a call may return
Values == {0 - 1, 0, 1}

DeferS(i) == [k |-> "Defer", id |-> i, body |-> <<>>]

ReturnS == [k |-> "Return", id |-> 0, body |-> <<>>]

TryS == [k |-> "Try", id |-> 0, body |-> <<>>]

IfS(b) == [k |-> "If", id |-> 0, body |-> b]

WhileS(b) == [k |-> "While", id |-> 0, body |-> b]

SimpleBodyStmts == {DeferS(i) : i \in DeferIds} \cup {ReturnS, TryS}

NestedBlocks == SeqsUpTo(SimpleBodyStmts, MaxNest)

BodyStmts ==
    SimpleBodyStmts \cup {IfS(b) : b \in NestedBlocks} \cup {WhileS(b) : b \in NestedBlocks}

FunctionKinds == {"function", "Main", "method"}

Ins(op, arg) == [op |-> op, arg |-> arg]

\* the code generator while it emits one function
Emitter(code, defers, labels) == [code |-> code, defers |-> defers, labels |-> labels]

Emit(g, instrs) == [g EXCEPT !.code = @ \o instrs]

RECURSIVE DeferredBodies(_)
\* the bodies on defer_stack, last first
DeferredBodies(defers) ==
    IF defers = <<>> THEN <<>>
    ELSE <<Ins("body", defers[Len(defers)])>>
             \o DeferredBodies(SubSeq(defers, 1, Len(defers) - 1))

\* _emit_deferred_statements
EmitDeferred(g) ==
    IF g.defers = <<>> THEN g
    ELSE Emit(g, <<Ins("push", 0)>> \o DeferredBodies(g.defers) \o <<Ins("pop", 0)>>)

\* generate_try_expr, followed by the store of the VarDecl it initializes
EmitTry(g, endLabel) ==
    LET ok == g.labels
        g1 == Emit([g EXCEPT !.labels = @ + 1],
                   <<Ins("eval_try", 0), Ins("jge", ok), Ins("retval", 0)>>)
    IN Emit(EmitDeferred(g1),
            <<Ins("jmp", endLabel), Ins("label", ok), Ins("store", 0)>>)

\* generate_statement for ReturnStmt
EmitReturn(g, endLabel) ==
    Emit(EmitDeferred(Emit(g, <<Ins("eval_ret", 0), Ins("retval", 0)>>)),
         <<Ins("jmp", endLabel)>>)

RECURSIVE EmitStatement(_, _, _)
RECURSIVE EmitBlock(_, _, _)

\* generate_statement
EmitStatement(s, g, endLabel) ==
    CASE s.k = "Defer" ->
            Emit([g EXCEPT !.defers = Append(@, s.id)], <<Ins("reg", s.id)>>)
      [] s.k = "Return" -> EmitReturn(g, endLabel)
      [] s.k = "Try" -> EmitTry(g, endLabel)
      [] s.k = "If" ->
            \* generate_if
            LET else == g.labels
                endif == g.labels + 1
                g1 == Emit([g EXCEPT !.labels = @ + 2],
                           <<Ins("cond", 0), Ins("je", else)>>)
            IN Emit(EmitBlock(s.body, g1, endLabel),
                    <<Ins("jmp", endif), Ins("label", else), Ins("label", endif)>>)
      [] s.k = "While" ->
            \* generate_while
            LET start == g.labels
                endwhile == g.labels + 1
                g1 == Emit([g EXCEPT !.labels = @ + 2],
                           <<Ins("label", start), Ins("condw", 0), Ins("jew", endwhile)>>)
            IN Emit(EmitBlock(s.body, g1, endLabel),
                    <<Ins("jmp", start), Ins("label", endwhile)>>)

EmitBlock(stmts, g, endLabel) ==
    IF stmts = <<>> THEN g
    ELSE EmitBlock(Tail(stmts), EmitStatement(Head(stmts), g, endLabel), endLabel)

\* generate_method emits the end label directly after the body
EmitTailOfMethod(g) == g

\* generate_function emits the deferred bodies before the end label
EmitTailOfFunction(g) == EmitDeferred(g)

\* generate_function / generate_method: label 0 is the end label
EmitFunction(kind, body) ==
    LET g == EmitBlock(body, Emitter(<<>>, <<>>, 1), 0)
        g1 == IF kind = "Main" THEN Emit(g, <<Ins("mov0", 0), Ins("retval", 0)>>) ELSE g
        g2 == IF kind = "method" THEN EmitTailOfMethod(g1) ELSE EmitTailOfFunction(g1)
    IN g2.code \o <<Ins("label", 0), Ins("ret", 0)>>

\* ---- execution of the emitted code ----
DfInit ==
    /\ dfStatus = "compile"
    /\ \E kind \in FunctionKinds, body \in SeqsUpTo(BodyStmts, MaxBody) :
          dfProg = [kind |-> kind, body |-> body]
    /\ dfCode = <<>>
    /\ rpc = 0
    /\ rax = 0
    /\ rstack = <<>>
    /\ rvar = <<>>
    /\ rlog = <<>>
    /\ retValue = <<>>
    /\ iters = 0
    /\ DrvIdle
    /\ IncIdle
    /\ LpIdle
    /\ SemIdle
    /\ IxIdle
    /\ GcIdle
    /\ CallIdle
    /\ AsIdle
    /\ UpIdle
    /\ LxIdle
    /\ FrIdle
    /\ CsIdle
    /\ WhIdle
    /\ PrIdle
    /\ TdIdle
    /\ BnIdle
    /\ EmIdle

DfOnly == UNCHANGED <<drvVars, incVars, lpVars, semVars, ixVars, gcVars, callVars, asVars, upVars, lxVars, frVars, csVars, whVars, prVars, tdVars, bnVars, emVars>>

Event(e, v) == [e |-> e, v |-> v]

CurIns == dfCode[rpc]

Running(ops) == dfStatus = "run" /\ CurIns.op \in ops

LabelIndex(n) ==
    CHOOSE i \in DOMAIN dfCode : dfCode[i].op = "label" /\ dfCode[i].arg = n

\* the code generator runs, then the function is called
Compile ==
    /\ dfStatus = "compile"
    /\ dfCode' = EmitFunction(dfProg.kind, dfProg.body)
    /\ dfStatus' = "run"
    /\ rpc' = 1
    /\ UNCHANGED <<dfProg, rax, rstack, rvar, rlog, retValue, iters>>
    /\ DfOnly

\* call g
ExecCall ==
    /\ Running({"eval_ret", "eval_try"})
    /\ \E v \in Values :
          /\ rax' = v
          /\ rlog' = Append(rlog, Event(CurIns.op, v))
    /\ rpc' = rpc + 1
    /\ UNCHANGED <<dfStatus, dfProg, dfCode, rstack, rvar, retValue, iters>>
    /\ DfOnly

\* call c; a loop condition holds at most MaxIter times
ExecCond ==
    /\ Running({"cond", "condw"})
    /\ \E v \in {0, 1} :
          /\ (CurIns.op = "condw" /\ iters >= MaxIter) => v = 0
          /\ rax' = v
    /\ rpc' = rpc + 1
    /\ UNCHANGED <<dfStatus, dfProg, dfCode, rstack, rvar, rlog, retValue, iters>>
    /\ DfOnly

\* cmpq $0, %rax; jge / je; or jmp
ExecJump ==
    /\ Running({"jge", "je", "jew", "jmp"})
    /\ LET taken == CASE CurIns.op = "jge" -> rax >= 0
                      [] CurIns.op \in {"je", "jew"} -> rax = 0
                      [] OTHER -> TRUE
       IN /\ rpc' = IF taken THEN LabelIndex(CurIns.arg) ELSE rpc + 1
          /\ iters' = IF CurIns.op = "jew"
                         THEN (IF taken THEN 0 ELSE iters + 1)
                         ELSE iters
    /\ UNCHANGED <<dfStatus, dfProg, dfCode, rax, rstack, rvar, rlog, retValue>>
    /\ DfOnly

\* movq $0, %rax
ExecMov0 ==
    /\ Running({"mov0"})
    /\ rax' = 0
    /\ rpc' = rpc + 1
    /\ UNCHANGED <<dfStatus, dfProg, dfCode, rstack, rvar, rlog, retValue, iters>>
    /\ DfOnly

\* pushq %rax
ExecPush ==
    /\ Running({"push"})
    /\ rstack' = Append(rstack, rax)
    /\ rpc' = rpc + 1
    /\ UNCHANGED <<dfStatus, dfProg, dfCode, rax, rvar, rlog, retValue, iters>>
    /\ DfOnly

\* popq %rax
ExecPop ==
    /\ Running({"pop"})
    /\ rax' = rstack[Len(rstack)]
    /\ rstack' = SubSeq(rstack, 1, Len(rstack) - 1)
    /\ rpc' = rpc + 1
    /\ UNCHANGED <<dfStatus, dfProg, dfCode, rvar, rlog, retValue, iters>>
    /\ DfOnly

\* the statements of a deferred body run; they leave any value in %rax
ExecBody ==
    /\ Running({"body"})
    /\ rlog' = Append(rlog, Event("run", CurIns.arg))
    /\ \E v \in Values : rax' = v
    /\ rpc' = rpc + 1
    /\ UNCHANGED <<dfStatus, dfProg, dfCode, rstack, rvar, retValue, iters>>
    /\ DfOnly

\* movq %rax, <slot of r>
ExecStore ==
    /\ Running({"store"})
    /\ rvar' = <<rax>>
    /\ rlog' = Append(rlog, Event("store", rax))
    /\ rpc' = rpc + 1
    /\ UNCHANGED <<dfStatus, dfProg, dfCode, rax, rstack, retValue, iters>>
    /\ DfOnly

\* labels and markers emit no instruction
ExecMarker ==
    /\ Running({"label", "reg", "retval"})
    /\ rlog' = IF CurIns.op = "reg" THEN Append(rlog, Event("reg", CurIns.arg)) ELSE rlog
    /\ retValue' = IF CurIns.op = "retval" THEN <<rax>> ELSE retValue
    /\ rpc' = rpc + 1
    /\ UNCHANGED <<dfStatus, dfProg, dfCode, rax, rstack, rvar, iters>>
    /\ DfOnly

\* leave; ret
ExecRet ==
    /\ Running({"ret"})
    /\ dfStatus' = "returned"
    /\ UNCHANGED <<dfProg, dfCode, rpc, rax, rstack, rvar, rlog, retValue, iters>>
    /\ DfOnly

DfNext ==
    \/ Compile
    \/ ExecCall
    \/ ExecCond
    \/ ExecJump
    \/ ExecMov0
    \/ ExecPush
    \/ ExecPop
    \/ ExecBody
    \/ ExecStore
    \/ ExecMarker
    \/ ExecRet

SpecDefer == DfInit /\ [][DfNext]_vars

\* ---- what the specification says about the log ----
EventsOf(log, kinds) == SelectSeq(log, LAMBDA ev : ev.e \in kinds)

IdsOf(log, kind) ==
    LET evs == EventsOf(log, {kind}) IN [i \in DOMAIN evs |-> evs[i].v]

ReverseSeq(sq) == [i \in DOMAIN sq |-> sq[Len(sq) + 1 - i]]

\* every defer statement of the function is a statement of its body, not of
\* an if or while inside it
DefersAtTopLevel(prog) ==
    \A i \in DOMAIN prog.body :
        \A j \in DOMAIN prog.body[i].body : prog.body[i].body[j].k # "Defer"

\* C7: when the function returns, the deferred bodies registered by then
\* have run exactly once each, last registered first, and the caller receives
\* the value computed before they ran
C7_DeferredRunOnEveryReturn ==
    (dfStatus = "returned" /\ DefersAtTopLevel(dfProg)) =>
        /\ IdsOf(rlog, "run") = ReverseSeq(IdsOf(rlog, "reg"))
        /\ retValue # <<>> => rax = retValue[1]

\* C8: a non-negative `e?` continues with its value; a negative one makes the
\* function return that value after running the pending deferred bodies, last
\* registered first, and nothing else
C8_TryPropagates ==
    dfStatus = "returned" =>
        \A k \in DOMAIN rlog :
            rlog[k].e = "eval_try" =>
                IF rlog[k].v >= 0
                   THEN k < Len(rlog) /\ rlog[k + 1] = Event("store", rlog[k].v)
                   ELSE LET pending == ReverseSeq(IdsOf(SubSeq(rlog, 1, k), "reg")) IN
                        /\ rax = rlog[k].v
                        /\ SubSeq(rlog, k + 1, Len(rlog)) =
                              [i \in DOMAIN pending |-> Event("run", pending[i])]

\* how often the event ev is in the log
CountOf(log, ev) == Len(SelectSeq(log, LAMBDA x : x = ev))

\* C30: a deferred body runs only after control passed its defer statement
\* in this invocation, and, when the function has returned, it has run once
\* for each time control passed the statement: a defer in a branch that was
\* not taken or in a loop body that never ran does not run
C30_DeferredOnlyIfExecuted ==
    /\ \A k \in DOMAIN rlog :
          rlog[k].e = "run" =>
              \E j \in 1 .. (k - 1) : rlog[j] = Event("reg", rlog[k].v)
    /\ dfStatus = "returned" =>
          \A i \in DeferIds :
              CountOf(rlog, Event("run", i)) = CountOf(rlog, Event("reg", i))

(***************************************************************************)
(* ARRAY INDEXING: the check emitted for IndexExpr and its execution       *)
(*                                                                         *)
(* Registers and memory words are WordBits wide and are kept as unsigned   *)
(* numbers; Signed gives the two's complement reading that jl uses.        *)
(* Addresses count 8-byte words, so imulq $8 / addq is one addition.       *)
(***************************************************************************)
WordBits == 3

MaxElems == 2

Modulus == 2 ^ WordBits

Words == 0 .. (Modulus - 1)

Signed(w) == IF w >= Modulus \div 2 THEN w - Modulus ELSE w

\* the data pointer vyl_alloc hands out
DataPtr == Modulus \div 2

IxInit ==
    /\ ixPc = "alloc"
    /\ ixKind = "none"
    /\ ixBase = 0
    /\ ixHeader = 0
    /\ ixIndex = 0
    /\ rbx = 0
    /\ rcx = 0
    /\ rdx = 0
    /\ ixAccess = <<>>
    /\ ixExit = <<>>
    /\ DrvIdle
    /\ IncIdle
    /\ LpIdle
    /\ SemIdle
    /\ DfIdle
    /\ GcIdle
    /\ CallIdle
    /\ AsIdle
    /\ UpIdle
    /\ LxIdle
    /\ FrIdle
    /\ CsIdle
    /\ WhIdle
    /\ PrIdle
    /\ TdIdle
    /\ BnIdle
    /\ EmIdle

IxOnly == UNCHANGED <<drvVars, incVars, lpVars, semVars, dfVars, gcVars, callVars, asVars, upVars, lxVars, frVars, csVars, whVars, prVars, tdVars, bnVars, emVars>>

\* Array(n): the length argument is stored in the header as it is; a failed
\* allocation gives the null pointer
ArrayBuiltin ==
    /\ ixPc = "alloc"
    /\ \E n \in Words, allocated \in BOOLEAN :
          /\ ixHeader' = IF allocated THEN n ELSE 0
          /\ ixBase' = IF allocated THEN DataPtr ELSE 0
    /\ ixPc' = "operands"
    /\ UNCHANGED <<ixKind, ixIndex, rbx, rcx, rdx, ixAccess, ixExit>>
    /\ IxOnly

\* [e1, ..., ek]: the header receives the number of elements
generate_array_literal ==
    /\ ixPc = "alloc"
    /\ \E k \in 0 .. MaxElems :
          /\ ixHeader' = k
          /\ ixBase' = DataPtr
    /\ ixPc' = "operands"
    /\ UNCHANGED <<ixKind, ixIndex, rbx, rcx, rdx, ixAccess, ixExit>>
    /\ IxOnly

\* receiver; push %rax; index; movq %rax, %rcx; pop %rbx
IndexOperands ==
    /\ ixPc = "operands"
    /\ \E kind \in {"read", "addr"}, i \in Words :
          /\ ixKind' = kind
          /\ ixIndex' = i
          /\ rcx' = i
    /\ rbx' = ixBase
    /\ ixPc' = "cmp_base"
    /\ UNCHANGED <<ixBase, ixHeader, rdx, ixAccess, ixExit>>
    /\ IxOnly

\* cmpq $0, %rbx; je oob
CmpBaseNull ==
    /\ ixPc = "cmp_base"
    /\ ixPc' = IF rbx = 0 THEN "oob" ELSE "cmp_index"
    /\ UNCHANGED <<ixKind, ixBase, ixHeader, ixIndex, rbx, rcx, rdx, ixAccess, ixExit>>
    /\ IxOnly

\* cmpq $0, %rcx; jl oob
CmpIndexNegative ==
    /\ ixPc = "cmp_index"
    /\ ixPc' = IF Signed(rcx) < 0 THEN "oob" ELSE "load_length"
    /\ UNCHANGED <<ixKind, ixBase, ixHeader, ixIndex, rbx, rcx, rdx, ixAccess, ixExit>>
    /\ IxOnly

\* movq -8(%rbx), %rdx
LoadLength ==
    /\ ixPc = "load_length"
    /\ rdx' = ixHeader
    /\ ixPc' = "cmp_length"
    /\ UNCHANGED <<ixKind, ixBase, ixHeader, ixIndex, rbx, rcx, ixAccess, ixExit>>
    /\ IxOnly

\* jae after cmpq %rdx, %rcx: taken when %rcx is above or equal to %rdx as
\* unsigned numbers
JaeTaken(c, d) == c >= d

\* cmpq %rdx, %rcx; jae oob
CmpIndexLength ==
    /\ ixPc = "cmp_length"
    /\ ixPc' = IF JaeTaken(rcx, rdx) THEN "oob" ELSE "access"
    /\ UNCHANGED <<ixKind, ixBase, ixHeader, ixIndex, rbx, rcx, rdx, ixAccess, ixExit>>
    /\ IxOnly

\* imulq $8, %rcx; addq %rcx, %rbx; movq (%rbx), %rax / movq %rbx, dest
ElementAccess ==
    /\ ixPc = "access"
    /\ rbx' = (rbx + rcx) % Modulus
    /\ ixAccess' = <<rbx'>>
    /\ ixPc' = "done"
    /\ UNCHANGED <<ixKind, ixBase, ixHeader, ixIndex, rcx, rdx, ixExit>>
    /\ IxOnly

\* oob: call vyl_bounds_fail (movq $1, %rdi; movq $60, %rax; syscall)
vyl_bounds_fail ==
    /\ ixPc = "oob"
    /\ ixExit' = <<1>>
    /\ ixPc' = "exited"
    /\ UNCHANGED <<ixKind, ixBase, ixHeader, ixIndex, rbx, rcx, rdx, ixAccess>>
    /\ IxOnly

IxNext ==
    \/ ArrayBuiltin
    \/ generate_array_literal
    \/ IndexOperands
    \/ CmpBaseNull
    \/ CmpIndexNegative
    \/ LoadLength
    \/ CmpIndexLength
    \/ ElementAccess
    \/ vyl_bounds_fail

SpecIndex == IxInit /\ [][IxNext]_vars

\* the index is inside the array: non-null base, 0 <= index < length
IndexInBounds ==
    /\ ixBase # 0
    /\ 0 <= Signed(ixIndex)
    /\ Signed(ixIndex) < Signed(ixHeader)

\* C9: the element is accessed only with a non-null base and 0 <= index <
\* length (the header word at -8); in every other case the operation ends in
\* vyl_bounds_fail with exit status 1 and no access
C9_IndexChecked ==
    /\ ixAccess # <<>> => IndexInBounds
    /\ (ixPc \in {"done", "exited"} /\ ~IndexInBounds) =>
           (ixExit = <<1>> /\ ixAccess = <<>>)

(***************************************************************************)
(* THE COLLECTOR: vyl_alloc, vyl_mark_ptr, vyl_collect                     *)
(*                                                                         *)
(* Addresses count 8-byte words.  malloc hands out one of MaxCells         *)
(* disjoint regions; a cell is its 24-byte header (next, size, mark)       *)
(* followed by its payload.  The stack the scan walks holds the frame      *)
(* pointer and return address saved on the way into vyl_collect and the    *)
(* words of the frames below stack_base.                                   *)
(***************************************************************************)
MaxCells == 2

MaxSize == 2

MaxRoots == 2

\* addq $24, %rdi: the header is three words
HeaderWords == 3

Slots == 1 .. MaxCells

Stride == HeaderWords + MaxSize + 1

\* the address malloc returns for region i
Hdr(i) == i * Stride

\* addq $24, %rax: the data pointer of the cell in region i
Data(i) == Hdr(i) + HeaderWords

Headers == {Hdr(i) : i \in Slots}

SlotOf(a) == a \div Stride

\* the stack lies above the heap, the code below it
SavedRbp == Hdr(MaxCells + 1)

ReturnAddress == Hdr(1) - 1

\* a non-null value that is the address of no cell
Wild == SavedRbp + 1

\* the words a local may hold: null, or a pointer to or into a region
RootWords == {0} \cup {Data(i) + k : i \in Slots, k \in 0 .. MaxSize}

NoCell == [state |-> "unused", next |-> 0, size |-> 0, mark |-> 0]

\* the words between %rsp and stack_base when the scan starts
Stack == <<SavedRbp, ReturnAddress>> \o roots

GcInit ==
    /\ gcPc = "mutate"
    /\ heap = [i \in Slots |-> NoCell]
    /\ vyl_head = 0
    /\ roots = [k \in 1 .. MaxRoots |-> 0]
    /\ scanAt = 0
    /\ sweepCur = 0
    /\ sweepPrev = 0
    /\ marked = {}
    /\ freed = {}
    /\ listAtCall = <<>>
    /\ DrvIdle
    /\ IncIdle
    /\ LpIdle
    /\ SemIdle
    /\ DfIdle
    /\ IxIdle
    /\ CallIdle
    /\ AsIdle
    /\ UpIdle
    /\ LxIdle
    /\ FrIdle
    /\ CsIdle
    /\ WhIdle
    /\ PrIdle
    /\ TdIdle
    /\ BnIdle
    /\ EmIdle

GcOnly == UNCHANGED <<drvVars, incVars, lpVars, semVars, dfVars, ixVars, callVars, asVars, upVars, lxVars, frVars, csVars, whVars, prVars, tdVars, bnVars, emVars>>

\* vyl_alloc(size): malloc hands out a region that is not in use, and the new
\* cell becomes the head of the list
vyl_alloc ==
    /\ gcPc = "mutate"
    /\ \E size \in 0 .. MaxSize, i \in Slots :
          /\ heap[i].state # "live"
          /\ heap' = [heap EXCEPT ![i] = [state |-> "live", next |-> vyl_head,
                                          size |-> size, mark |-> 0]]
          /\ vyl_head' = Hdr(i)
    /\ UNCHANGED <<gcPc, roots, scanAt, sweepCur, sweepPrev, marked, freed, listAtCall>>
    /\ GcOnly

\* the program stores a word in a local
StoreLocal ==
    /\ gcPc = "mutate"
    /\ \E k \in 1 .. MaxRoots, w \in RootWords : roots' = [roots EXCEPT ![k] = w]
    /\ roots' # roots
    /\ UNCHANGED <<gcPc, heap, vyl_head, scanAt, sweepCur, sweepPrev, marked, freed, listAtCall>>
    /\ GcOnly

\* Free(p) with p a pointer obtained from Alloc: subq $24, %rax; call free
FreeBuiltin ==
    /\ gcPc = "mutate"
    /\ \E k \in 1 .. MaxRoots, i \in Slots :
          /\ roots[k] = Data(i)
          /\ heap[i].state = "live"
          /\ heap' = [heap EXCEPT ![i].state = "freed"]
    /\ UNCHANGED <<gcPc, vyl_head, roots, scanAt, sweepCur, sweepPrev, marked, freed,
                   listAtCall>>
    /\ GcOnly

RECURSIVE ListFrom(_, _)
\* the cells met by following the next words from address b, at most n of them
ListFrom(b, n) ==
    IF b = 0 \/ n = 0 THEN <<>>
    ELSE <<SlotOf(b)>> \o ListFrom(heap[SlotOf(b)].next, n - 1)

\* GC(): call vyl_collect; %r12 = stack_base, %r13 = %rsp
CallCollect ==
    /\ gcPc = "mutate"
    /\ gcPc' = "scan"
    /\ scanAt' = 1
    /\ listAtCall' = ListFrom(vyl_head, MaxCells)
    /\ UNCHANGED <<heap, vyl_head, roots, sweepCur, sweepPrev, marked, freed>>
    /\ GcOnly

\* the second test of vyl_mark_loop, cmpq %rdi, %rdx; jae vyl_mark_next with
\* %rdx = data + size and %rdi = p: the jump is taken when %rdx >= %rdi
PastEndTaken(end, ptr) == end >= ptr

\* the result of a loop that does not end
Forever == 0 - 1

RECURSIVE MarkLoop(_, _, _)
\* vyl_mark_loop from the cell at header address b: the header address of the
\* cell that gets its mark set, or 0; a walk that has passed more cells than
\* there are is going round a cycle
MarkLoop(ptr, b, n) ==
    IF b = 0 THEN 0
    ELSE IF n = 0 THEN Forever
    ELSE LET c == heap[SlotOf(b)]
             data == b + HeaderWords
         IN IF ptr < data THEN MarkLoop(ptr, c.next, n - 1)
            ELSE IF PastEndTaken(data + c.size, ptr) THEN MarkLoop(ptr, c.next, n - 1)
            ELSE b

vyl_mark_ptr(ptr) == IF ptr = 0 THEN 0 ELSE MarkLoop(ptr, vyl_head, MaxCells + 1)

\* vyl_mark_scan: movq (%r13), %rdi; call vyl_mark_ptr; addq $8, %r13
MarkScan ==
    /\ gcPc = "scan"
    /\ scanAt <= Len(Stack)
    /\ LET b == vyl_mark_ptr(Stack[scanAt])
       IN /\ IF b \in {0, Forever}
                THEN UNCHANGED <<heap, marked>>
                ELSE /\ heap' = [heap EXCEPT ![SlotOf(b)].mark = 1]
                     /\ marked' = marked \cup {SlotOf(b)}
          /\ gcPc' = IF b = Forever THEN "hung" ELSE gcPc
    /\ scanAt' = scanAt + 1
    /\ UNCHANGED <<vyl_head, roots, sweepCur, sweepPrev, freed, listAtCall>>
    /\ GcOnly

\* vyl_mark_done_scan: movq vyl_head(%rip), %rbx; xor %rdi, %rdi
MarkDoneScan ==
    /\ gcPc = "scan"
    /\ scanAt > Len(Stack)
    /\ gcPc' = "sweep"
    /\ sweepCur' = vyl_head
    /\ sweepPrev' = 0
    /\ UNCHANGED <<heap, vyl_head, roots, scanAt, marked, freed, listAtCall>>
    /\ GcOnly

\* what a caller-saved register may hold after `call free`: its old value v,
\* or anything else
AfterCall(v) == {v, 0, Wild} \cup Headers

\* the memory at a is (or was) a cell
IsCell(a) == a \in Headers /\ heap[SlotOf(a)].state # "unused"

\* vyl_keep: clear the mark, %rdi = this cell, %rbx = its next
SweepKeep ==
    /\ gcPc = "sweep"
    /\ IsCell(sweepCur)
    /\ heap[SlotOf(sweepCur)].mark # 0
    /\ heap' = [heap EXCEPT ![SlotOf(sweepCur)].mark = 0]
    /\ sweepPrev' = sweepCur
    /\ sweepCur' = heap[SlotOf(sweepCur)].next
    /\ UNCHANGED <<gcPc, vyl_head, roots, scanAt, marked, freed, listAtCall>>
    /\ GcOnly

\* an unmarked cell: unlink it through %rdi or vyl_head, movq %rbx, %rdi;
\* call free; movq %rcx, %rbx
SweepFree ==
    /\ gcPc = "sweep"
    /\ IsCell(sweepCur)
    /\ heap[SlotOf(sweepCur)].mark = 0
    /\ heap[SlotOf(sweepCur)].state = "live"
    /\ sweepPrev = 0 \/ IsCell(sweepPrev)
    /\ LET c == SlotOf(sweepCur)
           next == heap[c].next
           unlinked == IF sweepPrev = 0 THEN heap
                       ELSE [heap EXCEPT ![SlotOf(sweepPrev)].next = next]
       IN /\ vyl_head' = IF sweepPrev = 0 THEN next ELSE vyl_head
          /\ heap' = [unlinked EXCEPT ![c].state = "freed"]
          /\ freed' = freed \cup {c}
          /\ sweepCur' \in AfterCall(next)
          /\ sweepPrev' \in AfterCall(sweepCur)
    /\ UNCHANGED <<gcPc, roots, scanAt, marked, listAtCall>>
    /\ GcOnly

\* the loop reads or writes memory that is no cell, or frees a cell a second
\* time: the process is killed
SweepFault ==
    /\ gcPc = "sweep"
    /\ sweepCur # 0
    /\ IF IsCell(sweepCur)
          THEN /\ heap[SlotOf(sweepCur)].mark = 0
               /\ IF heap[SlotOf(sweepCur)].state = "freed"
                     THEN TRUE
                     ELSE ~(sweepPrev = 0 \/ IsCell(sweepPrev))
          ELSE TRUE
    /\ gcPc' = "crashed"
    /\ UNCHANGED <<heap, vyl_head, roots, scanAt, sweepCur, sweepPrev, marked, freed, listAtCall>>
    /\ GcOnly

\* vyl_sweep_done
SweepDone ==
    /\ gcPc = "sweep"
    /\ sweepCur = 0
    /\ gcPc' = "done"
    /\ UNCHANGED <<heap, vyl_head, roots, scanAt, sweepCur, sweepPrev, marked, freed, listAtCall>>
    /\ GcOnly

GcNext ==
    \/ vyl_alloc
    \/ StoreLocal
    \/ FreeBuiltin
    \/ CallCollect
    \/ MarkScan
    \/ MarkDoneScan
    \/ SweepKeep
    \/ SweepFree
    \/ SweepFault
    \/ SweepDone

SpecGC == GcInit /\ [][GcNext]_vars

\* the word p points into the payload of the cell in region i
PointsInto(ptr, i) == Data(i) <= ptr /\ ptr < Data(i) + heap[i].size

\* C10: once the scan of a pass is over, every cell some scanned stack word
\* points into has been marked, and the sweep of the pass does not free it
C10_ConservativeMark ==
    gcPc \in {"sweep", "done", "crashed"} =>
        \A k \in DOMAIN Stack, i \in Slots :
            (heap[i].state # "unused" /\ PointsInto(Stack[k], i)) =>
                (i \in marked /\ i \notin freed)

SetOf(sq) == {sq[k] : k \in DOMAIN sq}

\* C11: a GC pass runs to its end, and then the list from vyl_head is the
\* marked cells of the list in their old order, their marks are 0 again, and
\* the cells passed to free are the unmarked cells of the list
C11_SweepKeepsMarked ==
    /\ gcPc # "crashed"
    /\ gcPc = "done" =>
          /\ ListFrom(vyl_head, MaxCells + 1) =
                SelectSeq(listAtCall, LAMBDA i : i \in marked)
          /\ \A i \in marked : heap[i].mark = 0
          /\ freed = SetOf(listAtCall) \ marked

\* C12: between operations every cell on the list from vyl_head is an
\* allocated cell that has not been passed to free, no cell is on the list
\* twice, and no operation has touched freed memory or freed a cell twice
C12_HeapListInvariant ==
    /\ gcPc \notin {"crashed", "hung"}
    /\ gcPc \in {"mutate", "done"} =>
          LET l == ListFrom(vyl_head, MaxCells + 1)
          IN /\ \A k \in DOMAIN l : heap[l[k]].state = "live"
             /\ Cardinality(SetOf(l)) = Len(l)

(***************************************************************************)
(* CALLS WITH DEFAULT ARGUMENTS: the arity check of the type checker and   *)
(* the argument list the code generator evaluates                          *)
(*                                                                         *)
(* A declaration is [kind, name, defaults]; defaults[i] tells whether      *)
(* parameter i has a default expression.  The call supplies nargs          *)
(* arguments of type int.                                                  *)
(***************************************************************************)
MaxParams == 2

CalleeKinds == {"function", "method"}

CalleeNames == {"f", "Sqrt"}

\* the builtin signature table: name |-> number of parameters
BUILTINS == [n \in {"Sqrt"} |-> 1]

CallInit ==
    /\ callPc = "check"
    /\ \E kind \in CalleeKinds, name \in CalleeNames,
          defaults \in SeqsUpTo(BOOLEAN, MaxParams) :
          callee = [kind |-> kind, name |-> name, defaults |-> defaults]
    /\ nargs \in 0 .. (MaxParams + 1)
    /\ callVerdict = "none"
    /\ passedArgs = <<>>
    /\ DrvIdle
    /\ IncIdle
    /\ LpIdle
    /\ SemIdle
    /\ DfIdle
    /\ IxIdle
    /\ GcIdle
    /\ AsIdle
    /\ UpIdle
    /\ LxIdle
    /\ FrIdle
    /\ CsIdle
    /\ WhIdle
    /\ PrIdle
    /\ TdIdle
    /\ BnIdle
    /\ EmIdle

CallOnly == UNCHANGED <<drvVars, incVars, lpVars, semVars, dfVars, ixVars, gcVars, asVars, upVars, lxVars, frVars, csVars, whVars, prVars, tdVars, bnVars, emVars>>

\* required_params = sum(1 for _, _, pdefault in fn.params if pdefault is None)
RequiredParams(defaults) == Cardinality({i \in DOMAIN defaults : ~defaults[i]})

\* the test before `raise ValidationError("... expects {required} to {len} args")`
ArityRejected(defaults, n) == n < RequiredParams(defaults) \/ n > Len(defaults)

\* _type_of_expression for MethodCall and FunctionCall: a builtin name is
\* looked up in BUILTINS before the declared functions
TypeOfCall(c, n) ==
    IF c.kind = "function" /\ c.name \in DOMAIN BUILTINS
       THEN IF BUILTINS[c.name] # n THEN "rejected" ELSE "accepted"
       ELSE IF ArityRejected(c.defaults, n) THEN "rejected" ELSE "accepted"

Arg(i) == [src |-> "arg", pos |-> i]

Default(i) == [src |-> "default", pos |-> i]

\* full_args: the arguments, then the default of each later parameter that
\* has one
FullArgs(defaults, n) ==
    LET later == [k \in 1 .. (Len(defaults) - n) |-> n + k]
        withDefault == SelectSeq(later, LAMBDA q : defaults[q])
    IN [i \in 1 .. n |-> Arg(i)] \o [k \in DOMAIN withDefault |-> Default(withDefault[k])]

\* generate_function_call: a builtin name takes its own branch
generate_function_call(c, n) ==
    IF c.name \in DOMAIN BUILTINS THEN [i \in 1 .. n |-> Arg(i)]
    ELSE FullArgs(c.defaults, n)

\* generate_method_call: all_args = [receiver] + list(call.arguments)
generate_method_call(c, n) == [i \in 1 .. n |-> Arg(i)]

TypeCheckCall ==
    /\ callPc = "check"
    /\ callVerdict' = TypeOfCall(callee, nargs)
    /\ callPc' = IF callVerdict' = "accepted" THEN "emit" ELSE "done"
    /\ UNCHANGED <<callee, nargs, passedArgs>>
    /\ CallOnly

\* generate_method unpacks each parameter as (name, type): a method that has
\* parameters makes code generation raise ValueError
MethodUnpackFails(c) == c.kind = "method" /\ c.defaults # <<>>

\* code generation for the program that holds the declaration and the call
EmitCall ==
    /\ callPc = "emit"
    /\ IF MethodUnpackFails(callee)
          THEN /\ callPc' = "failed"
               /\ UNCHANGED passedArgs
          ELSE /\ callPc' = "done"
               /\ passedArgs' = IF callee.kind = "method"
                                   THEN generate_method_call(callee, nargs)
                                   ELSE generate_function_call(callee, nargs)
    /\ UNCHANGED <<callee, nargs, callVerdict>>
    /\ CallOnly

CallNext ==
    \/ TypeCheckCall
    \/ EmitCall

SpecCall == CallInit /\ [][CallNext]_vars

\* K, the number of parameters with a default
DefaultCount(defaults) == Cardinality({i \in DOMAIN defaults : defaults[i]})

\* C13: a call to a declared function with N parameters, K of them with
\* defaults, is accepted exactly when it supplies N - K to N arguments
C13_ArityRange ==
    (callVerdict # "none" /\ callee.kind = "function") =>
        (callVerdict = "accepted" <=>
            /\ Len(callee.defaults) - DefaultCount(callee.defaults) <= nargs
            /\ nargs <= Len(callee.defaults))

\* the call is compiled as a call of the declared function or method
CallsDeclared(c) == c.kind = "method" \/ c.name \notin DOMAIN BUILTINS

\* C14: an accepted call of a declared function or method evaluates one
\* argument per parameter: the supplied arguments, then for every omitted
\* position the default expression of that parameter
C14_DefaultsFilled ==
    (callPc = "done" /\ callVerdict = "accepted" /\ CallsDeclared(callee)) =>
        passedArgs = [i \in DOMAIN callee.defaults |->
                         IF i <= nargs THEN Arg(i) ELSE Default(i)]

(***************************************************************************)
(* ASSIGNMENT TO IMMUTABLE BINDINGS                                        *)
(*                                                                         *)
(* asProg declares the globals asProg.globals (name |-> is_mutable) and    *)
(* one unit holding asProg.body: "Main", a parameterless "method" of a     *)
(* struct (with an empty Main), or "toplevel" statements before an empty   *)
(* Main.  A statement is [k, name, mut, body]:                             *)
(*   Let     VarDecl(name, is_mutable = mut) with a literal initializer    *)
(*   Assign  Assignment(name = name, target = None) of a literal           *)
(*   If / While   with the condition true and the block body               *)
(*   For     for name in 0..2 { body }                                     *)
(* The tables of the passes map a name to the is_mutable of its binding.   *)
(***************************************************************************)
MaxNesting == 2

MaxPrefix == 1

LetDecl(n, m) == [k |-> "Let", name |-> n, mut |-> m, body |-> <<>>]

Assignment(n) == [k |-> "Assign", name |-> n, mut |-> TRUE, body |-> <<>>]

Compound(k, n, b) == [k |-> k, name |-> n, mut |-> TRUE, body |-> b]

AsSimple ==
    {LetDecl("x", m) : m \in BOOLEAN} \cup {Assignment(n) : n \in {"x", "g", "self"}}

CompoundHeads == {<<"If", "">>, <<"While", "">>, <<"For", "i">>, <<"For", "x">>}

RECURSIVE CompoundsAt(_)
\* the compound statements of nesting depth at most d, a block holding at
\* most one statement
CompoundsAt(d) ==
    IF d = 0 THEN {}
    ELSE {Compound(h[1], h[2], b) :
             h \in CompoundHeads,
             b \in {<<>>} \cup {<<s>> : s \in AsSimple \cup CompoundsAt(d - 1)}}

AsBodies ==
    {<<>>} \cup
    {p \o <<s>> : p \in SeqsUpTo(AsSimple, MaxPrefix),
                  s \in AsSimple \cup CompoundsAt(MaxNesting)}

AsGlobals == {<<>>} \cup {[n \in {"g"} |-> m] : m \in BOOLEAN}

AsPrograms ==
    [unit : {"Main", "method", "toplevel"}, globals : AsGlobals, body : AsBodies]

AsInit ==
    /\ asPc = "start"
    /\ asProg \in AsPrograms
    /\ asRejectedBy = "none"
    /\ DrvIdle
    /\ IncIdle
    /\ LpIdle
    /\ SemIdle
    /\ DfIdle
    /\ IxIdle
    /\ GcIdle
    /\ CallIdle
    /\ UpIdle
    /\ LxIdle
    /\ FrIdle
    /\ CsIdle
    /\ WhIdle
    /\ PrIdle
    /\ TdIdle
    /\ BnIdle
    /\ EmIdle

AsOnly == UNCHANGED <<drvVars, incVars, lpVars, semVars, dfVars, ixVars, gcVars, callVars, upVars, lxVars, frVars, csVars, whVars, prVars, tdVars, bnVars, emVars>>

Raised == [ok |-> FALSE, table |-> <<>>]

Table(t) == [ok |-> TRUE, table |-> t]

\* locals_table[name] = (type, is_mutable)
Bind(t, n, m) == [x \in DOMAIN t \cup {n} |-> IF x = n THEN m ELSE t[x]]

\* the mutability check of the mutant: none
AssignmentRejectedNever(pass, n, locals, globals) == FALSE

\* type_checker.py: the binding is looked up in the locals, then in the
\* globals, and an immutable one raises; the resolver and the validator
\* have no such check
AssignmentRejected(pass, n, locals, globals) ==
    /\ pass = "type_checker"
    /\ IF n \in DOMAIN locals THEN ~locals[n]
       ELSE IF n \in DOMAIN globals THEN ~globals[n]
       ELSE FALSE

\* Assignment to a name no table holds
AssignmentUndefined(pass, n, locals, globals, in_function) ==
    IF pass = "type_checker" \/ in_function
       THEN n \notin DOMAIN locals \cup DOMAIN globals
       ELSE n \notin DOMAIN globals

RECURSIVE AsStatement(_, _, _, _, _)
RECURSIVE AsBlock(_, _, _, _, _)

\* _resolve_statement / _type_check_statement / _validate_statement: the
\* locals table after the statement, or Raised for a ValidationError
AsStatement(pass, s, locals, globals, in_function) ==
    CASE s.k = "Let" ->
            IF s.name \in DOMAIN locals THEN Raised
            ELSE Table(Bind(locals, s.name, s.mut))
      [] s.k = "Assign" ->
            IF \/ AssignmentUndefined(pass, s.name, locals, globals, in_function)
               \/ AssignmentRejected(pass, s.name, locals, globals)
               THEN Raised ELSE Table(locals)
      [] s.k \in {"If", "While"} ->
            IF AsBlock(pass, s.body, locals, globals, in_function).ok
               THEN Table(locals) ELSE Raised
      [] s.k = "For" ->
            IF AsBlock(pass, s.body, Bind(locals, s.name, TRUE), globals, in_function).ok
               THEN Table(locals) ELSE Raised

\* a Block: its statements in order on a copy of the table
AsBlock(pass, stmts, locals, globals, in_function) ==
    IF stmts = <<>> THEN Table(locals)
    ELSE LET r == AsStatement(pass, Head(stmts), locals, globals, in_function) IN
            IF r.ok THEN AsBlock(pass, Tail(stmts), r.table, globals, in_function)
            ELSE Raised

\* the top-level VarDecl statements of a "toplevel" program are globals
TopLevelLets(prog) ==
    IF prog.unit = "toplevel"
       THEN {i \in DOMAIN prog.body : prog.body[i].k = "Let"}
       ELSE {}

\* _register_global / _define_var: a second global of one name raises
AsDuplicateGlobal(prog) ==
    \E i, j \in TopLevelLets(prog) : i < j /\ prog.body[i].name = prog.body[j].name

AsGlobalsTable(prog) ==
    [n \in DOMAIN prog.globals \cup {prog.body[i].name : i \in TopLevelLets(prog)} |->
        IF n \in DOMAIN prog.globals THEN prog.globals[n]
        ELSE prog.body[CHOOSE i \in TopLevelLets(prog) : prog.body[i].name = n].mut]

\* resolve_program / type_check / validate_program: TRUE iff the pass raises
\* nothing
AsPass(pass, prog) ==
    LET G == AsGlobalsTable(prog) IN
    /\ ~AsDuplicateGlobal(prog)
    /\ CASE prog.unit = "Main" -> AsBlock(pass, prog.body, <<>>, G, TRUE).ok
         [] prog.unit = "method" ->
               AsBlock(pass, prog.body, [n \in {"self"} |-> FALSE], G, TRUE).ok
         [] prog.unit = "toplevel" ->
               \A i \in DOMAIN prog.body \ TopLevelLets(prog) :
                   AsStatement(pass, prog.body[i], <<>>, G, FALSE).ok

RECURSIVE DeclaresInside(_, _)
\* a VarDecl of a name other than those of names, somewhere in the statements
DeclaresInside(stmts, names) ==
    \E i \in DOMAIN stmts :
        \/ stmts[i].k = "Let" /\ stmts[i].name \notin names
        \/ DeclaresInside(stmts[i].body, names)

\* generate_statement: a VarDecl without a symbol raises CodegenError; the
\* top-level statements have no frame, so only the globals have symbols
AsCodegenRaises(prog) ==
    /\ prog.unit = "toplevel"
    /\ \E i \in DOMAIN prog.body :
          DeclaresInside(prog.body[i].body, DOMAIN AsGlobalsTable(prog))

AsStep(from, pass, passes, to) ==
    /\ asPc = from
    /\ IF passes THEN asPc' = to /\ UNCHANGED asRejectedBy
                 ELSE asPc' = "failed" /\ asRejectedBy' = pass
    /\ UNCHANGED asProg
    /\ AsOnly

AsResolve == AsStep("start", "resolver", AsPass("resolver", asProg), "resolved")

AsTypeCheck == AsStep("resolved", "type_checker", AsPass("type_checker", asProg), "typed")

AsValidate == AsStep("typed", "validator", AsPass("validator", asProg), "validated")

AsGenerate == AsStep("validated", "codegen", ~AsCodegenRaises(asProg), "generated")

AsNext ==
    \/ AsResolve
    \/ AsTypeCheck
    \/ AsValidate
    \/ AsGenerate

SpecAssign == AsInit /\ [][AsNext]_vars

\* ---- the bindings as the language scopes them ----
RECURSIVE SitesOf(_)
\* the positions of the statements of a statement list, at every depth
SitesOf(stmts) ==
    {<<i>> : i \in DOMAIN stmts}
    \cup UNION {{<<i>> \o p : p \in SitesOf(stmts[i].body)} : i \in DOMAIN stmts}

RECURSIVE StatementAt(_, _)
StatementAt(stmts, path) ==
    IF Len(path) = 1 THEN stmts[Head(path)]
    ELSE StatementAt(stmts[Head(path)].body, Tail(path))

RECURSIVE BindingIn(_, _, _, _, _)
\* <<is_mutable>> of the binding of n that the statement at path sees, <<>>
\* if none: a declaration earlier in an enclosing block (when the block
\* declares locals), the variable of an enclosing for, else outer
BindingIn(stmts, path, n, outer, declares) ==
    LET i == Head(path)
        earlier == {j \in 1 .. (i - 1) : stmts[j].k = "Let" /\ stmts[j].name = n}
        here == IF declares /\ earlier # {}
                   THEN <<stmts[CHOOSE j \in earlier : TRUE].mut>>
                   ELSE outer
    IN  IF Len(path) = 1 THEN here
        ELSE BindingIn(stmts[i].body, Tail(path), n,
                       IF stmts[i].k = "For" /\ stmts[i].name = n THEN <<TRUE>> ELSE here,
                       TRUE)

\* the binding an assignment at path targets: a local one, else the global
BindingAt(prog, path) ==
    LET n == StatementAt(prog.body, path).name
        G == AsGlobalsTable(prog)
        local == BindingIn(prog.body, path, n,
                           IF prog.unit = "method" /\ n = "self" THEN <<FALSE>> ELSE <<>>,
                           prog.unit # "toplevel")
    IN  IF local # <<>> THEN local
        ELSE IF n \in DOMAIN G THEN <<G[n]>> ELSE <<>>

\* the assignments of prog whose target is an immutable binding
ImmutableAssignments(prog) ==
    {path \in SitesOf(prog.body) :
        /\ StatementAt(prog.body, path).k = "Assign"
        /\ BindingAt(prog, path) = <<FALSE>>}

MaxTupleLen == 3

MaxNames == 3

Literal == [k |-> "Literal", elems |-> <<>>]

TupleLiteral(es) == [k |-> "TupleLiteral", elems |-> es]

ArrayLiteral(e) == [k |-> "ArrayLiteral", elems |-> <<e>>]

AddressOf(e) == [k |-> "AddressOf", elems |-> <<e>>]

\* the expressions over a set of operands
ExprsOver(S) ==
    {TupleLiteral(es) : es \in SeqsUpTo(S, MaxTupleLen)}
    \cup {ArrayLiteral(e) : e \in S}
    \cup {AddressOf(e) : e \in S}

InnerValues == {Literal} \cup ExprsOver({Literal})

UnpackValues == InnerValues \cup ExprsOver(InnerValues)

UpInit ==
    /\ upPc = "type"
    /\ upValue \in UnpackValues
    /\ upNames \in 2 .. MaxNames
    /\ val_type = <<>>
    /\ scanPos = 0
    /\ parenDepth = 0
    /\ current = <<>>
    /\ elem_types = <<>>
    /\ upVerdict = "none"
    /\ DrvIdle
    /\ IncIdle
    /\ LpIdle
    /\ SemIdle
    /\ DfIdle
    /\ IxIdle
    /\ GcIdle
    /\ CallIdle
    /\ AsIdle
    /\ LxIdle
    /\ FrIdle
    /\ CsIdle
    /\ WhIdle
    /\ PrIdle
    /\ TdIdle
    /\ BnIdle
    /\ EmIdle

UpOnly ==
    UNCHANGED <<drvVars, incVars, lpVars, semVars, dfVars, ixVars, gcVars, callVars, asVars, lxVars, frVars, csVars, whVars, prVars, tdVars, bnVars, emVars>>

RECURSIVE Join(_)
\* ", ".join(types)
Join(types) ==
    IF types = <<>> THEN <<>>
    ELSE IF Len(types) = 1 THEN types[1]
    ELSE types[1] \o <<",", " ">> \o Join(Tail(types))

RECURSIVE type_of_expression(_)
\* _type_of_expression on a Literal, TupleLiteral, ArrayLiteral, AddressOf
type_of_expression(expr) ==
    CASE expr.k = "Literal" -> <<"int">>
      [] expr.k = "AddressOf" -> <<"*">> \o type_of_expression(expr.elems[1])
      [] expr.k = "ArrayLiteral" -> type_of_expression(expr.elems[1]) \o <<"[]">>
      [] expr.k = "TupleLiteral" ->
            <<"(">> \o Join([i \in DOMAIN expr.elems |-> type_of_expression(expr.elems[i])])
                    \o <<")">>

RECURSIVE Strip(_)
\* str.strip()
Strip(str) ==
    IF str = <<>> THEN <<>>
    ELSE IF Head(str) = " " THEN Strip(Tail(str))
    ELSE IF str[Len(str)] = " " THEN Strip(SubSeq(str, 1, Len(str) - 1))
    ELSE str

\* val_type[1:-1]
InnerType == SubSeq(val_type, 2, Len(val_type) - 1)

\* the scan of the mutant splits at every comma
SplitsAtEveryComma(ch, d) == ch = ","

\* the scan splits at a comma outside every parenthesis
SplitsHere(ch, d) == ch = "," /\ d = 0

UnpackTypeOf ==
    /\ upPc = "type"
    /\ val_type' = type_of_expression(upValue)
    /\ upPc' = "check"
    /\ UNCHANGED <<upValue, upNames, scanPos, parenDepth, current, elem_types, upVerdict>>
    /\ UpOnly

\* val_type.startswith("(") and val_type.endswith(")")
LooksLikeTuple(t) == t # <<>> /\ Head(t) = "(" /\ t[Len(t)] = ")"

UnpackNonTuple ==
    /\ upPc = "check"
    /\ ~LooksLikeTuple(val_type)
    /\ upVerdict' = "rejected"
    /\ upPc' = "done"
    /\ UNCHANGED <<upValue, upNames, val_type, scanPos, parenDepth, current, elem_types>>
    /\ UpOnly

UnpackStartScan ==
    /\ upPc = "check"
    /\ LooksLikeTuple(val_type)
    /\ scanPos' = 1
    /\ upPc' = "scan"
    /\ UNCHANGED <<upValue, upNames, val_type, parenDepth, current, elem_types, upVerdict>>
    /\ UpOnly

\* one iteration of for ch in inner
UnpackScanChar ==
    /\ upPc = "scan"
    /\ scanPos <= Len(InnerType)
    /\ LET ch == InnerType[scanPos] IN
          /\ parenDepth' = CASE ch = "(" -> parenDepth + 1
                             [] ch = ")" -> parenDepth - 1
                             [] OTHER -> parenDepth
          /\ IF ch \notin {"(", ")"} /\ SplitsHere(ch, parenDepth)
                THEN /\ elem_types' = Append(elem_types, Strip(current))
                     /\ current' = <<>>
                ELSE /\ current' = Append(current, ch)
                     /\ UNCHANGED elem_types
    /\ scanPos' = scanPos + 1
    /\ UNCHANGED <<upPc, upValue, upNames, val_type, upVerdict>>
    /\ UpOnly

\* after the loop: the last element, then the count against the names; the
\* names are new, so a matching count is accepted
UnpackCount ==
    /\ upPc = "scan"
    /\ scanPos > Len(InnerType)
    /\ LET all == IF Strip(current) # <<>> THEN Append(elem_types, Strip(current))
                                          ELSE elem_types
       IN  /\ elem_types' = all
           /\ upVerdict' = IF Len(all) # upNames THEN "rejected" ELSE "accepted"
    /\ upPc' = "done"
    /\ UNCHANGED <<upValue, upNames, val_type, scanPos, parenDepth, current>>
    /\ UpOnly

UpNext ==
    \/ UnpackTypeOf
    \/ UnpackNonTuple
    \/ UnpackStartScan
    \/ UnpackScanChar
    \/ UnpackCount

SpecUnpack == UpInit /\ [][UpNext]_vars

\* C16: a tuple unpack of M names is accepted exactly when its right-hand
\* side is a tuple of M elements, a nested tuple counting as one element; a
\* non-tuple and a tuple of another length are rejected
C16_UnpackArity ==
    upPc = "done" =>
        (upVerdict = "accepted" <=>
            (upValue.k = "TupleLiteral" /\ Len(upValue.elems) = upNames))

\* an accepted unpack whose right-hand side holds a nested tuple of several
\* elements
C16_Witness ==
    /\ upPc = "done"
    /\ upVerdict = "accepted"
    /\ \E i \in DOMAIN upValue.elems :
          upValue.elems[i].k = "TupleLiteral" /\ Len(upValue.elems[i].elems) > 1

(***************************************************************************)
(* THE LEXER ON CHARACTERS                                                 *)
(*                                                                         *)
(* The source is a sequence of characters: a letter, a digit, the quote,   *)
(* the backslash, a character no token starts with, the space, the newline *)
(* and the slash.  A token is [type, first, last, line, column]: first and *)
(* last are the positions of the characters it consumed.                   *)
(***************************************************************************)
MaxSrcLen == 4

Quote == "\""

Backslash == "\\"

Newline == "\n"

Chars == {"a", "1", Quote, Backslash, "@", " ", Newline, "/"}

LxInit ==
    /\ lxPc = "lex"
    /\ lxSrc \in SeqsUpTo(Chars, MaxSrcLen)
    /\ lexer = [position |-> 1, line |-> 1, column |-> 1]
    /\ lxTokens = <<>>
    /\ lxError = <<>>
    /\ DrvIdle
    /\ IncIdle
    /\ LpIdle
    /\ SemIdle
    /\ DfIdle
    /\ IxIdle
    /\ GcIdle
    /\ CallIdle
    /\ AsIdle
    /\ UpIdle
    /\ FrIdle
    /\ CsIdle
    /\ WhIdle
    /\ PrIdle
    /\ TdIdle
    /\ BnIdle
    /\ EmIdle

LxOnly ==
    UNCHANGED <<drvVars, incVars, lpVars, semVars, dfVars, ixVars, gcVars, callVars, asVars, upVars, frVars, csVars, whVars, prVars, tdVars, bnVars, emVars>>

\* Lexer.peek: the character at position + offset, "" past the end
Peek(lx, offset) ==
    IF lx.position + offset <= Len(lxSrc) THEN lxSrc[lx.position + offset] ELSE ""

AtEnd(lx) == lx.position > Len(lxSrc)

\* Lexer.advance by one character
advance(lx) ==
    IF AtEnd(lx) THEN lx
    ELSE IF Peek(lx, 0) = Newline
         THEN [position |-> lx.position + 1, line |-> lx.line + 1, column |-> 1]
         ELSE [position |-> lx.position + 1, line |-> lx.line, column |-> lx.column + 1]

RECURSIVE SkipWhile(_, _)
\* advance while the current character is one of cs
SkipWhile(lx, cs) ==
    IF ~AtEnd(lx) /\ Peek(lx, 0) \in cs THEN SkipWhile(advance(lx), cs) ELSE lx

skip_whitespace(lx) == SkipWhile(lx, {" "})

skip_comment(lx) ==
    IF Peek(lx, 0) = "/" /\ Peek(lx, 1) = "/"
       THEN SkipWhile(advance(advance(lx)), Chars \ {Newline})
       ELSE lx

RECURSIVE ScanStringBody(_)
\* the loop of scan_string: it ends at the closing quote, or at the end of
\* the source
ScanStringBody(lx) ==
    IF AtEnd(lx) THEN lx
    ELSE IF Peek(lx, 0) = Quote THEN advance(lx)
    ELSE IF Peek(lx, 0) = Backslash THEN ScanStringBody(advance(advance(lx)))
    ELSE ScanStringBody(advance(lx))

scan_string(lx) == ScanStringBody(advance(lx))

scan_number(lx) == SkipWhile(lx, {"1"})

scan_identifier(lx) == SkipWhile(lx, {"a", "1"})

Token(type, from, to) ==
    [type |-> type, first |-> from.position, last |-> to.position - 1,
     line |-> from.line, column |-> from.column]

\* Lexer.next_token: [lexer, token] or, for the SyntaxError, [lexer, raised]
next_token(lx0) ==
    LET lx == skip_whitespace(skip_comment(skip_whitespace(lx0)))
        char == Peek(lx, 0)
        After(type, to) == [lexer |-> to, token |-> <<Token(type, lx, to)>>, raised |-> <<>>]
    IN  CASE AtEnd(lx) -> After("EOF", lx)
          [] char = Newline -> After("NEWLINE", advance(lx))
          [] char = Quote -> After("STRING", scan_string(lx))
          [] char = "1" -> After("INTEGER", scan_number(lx))
          [] char = "a" -> After("IDENTIFIER", scan_identifier(lx))
          [] char = "/" -> After("SLASH", advance(lx))
          [] OTHER -> [lexer |-> advance(lx), token |-> <<>>,
                       raised |-> <<lx.line, lx.column>>]

\* one iteration of the loop of Lexer.tokenize
TokenizeLoop ==
    /\ lxPc = "lex"
    /\ LET r == next_token(lexer) IN
          /\ lexer' = r.lexer
          /\ IF r.raised # <<>>
                THEN /\ lxPc' = "failed"
                     /\ lxError' = r.raised
                     /\ UNCHANGED lxTokens
                ELSE /\ lxTokens' = lxTokens \o r.token
                     /\ lxPc' = IF r.token[1].type = "EOF" THEN "done" ELSE "lex"
                     /\ UNCHANGED lxError
    /\ UNCHANGED lxSrc
    /\ LxOnly

LxNext == TokenizeLoop

SpecLex == LxInit /\ [][LxNext]_vars

\* ---- what the specification says about malformed input ----
RECURSIVE ClosingQuote(_, _)
\* the position of the quote that closes a string literal whose characters
\* start at p (a backslash takes the next character with it), 0 if none
ClosingQuote(src, p) ==
    IF p > Len(src) THEN 0
    ELSE IF src[p] = Quote THEN p
    ELSE IF src[p] = Backslash THEN ClosingQuote(src, p + 2)
    ELSE ClosingQuote(src, p + 1)

\* line and column of position p of the source
LineOf(src, p) == 1 + Cardinality({q \in 1 .. (p - 1) : src[q] = Newline})

ColumnOf(src, p) ==
    LET nl == {q \in 1 .. (p - 1) : src[q] = Newline}
    IN  IF nl = {} THEN p ELSE p - (CHOOSE q \in nl : \A r \in nl : r <= q)

\* C17: tokenize returns a token list only if every string literal it read
\* has its closing quote, and the error it raises carries the line and the
\* column of the offending character
C17_MalformedInputFails ==
    /\ lxPc = "done" =>
          \A k \in DOMAIN lxTokens :
              lxTokens[k].type = "STRING" =>
                  ClosingQuote(lxSrc, lxTokens[k].first + 1) # 0
    /\ lxPc = "failed" =>
          lxError = <<LineOf(lxSrc, lexer.position - 1), ColumnOf(lxSrc, lexer.position - 1)>>

(***************************************************************************)
(* THE FRAME OF A GENERATED FUNCTION                                       *)
(*                                                                         *)
(* frFn is a function of frFn.nparams integer parameters, or a method      *)
(* (whose only parameter is self), with the body frFn.body.  A statement   *)
(* is [k, a, b]:                                                           *)
(*   VarDecl      var x = 7;  (a new local each)                           *)
(*   AssignParam  parameter a = 7;                                         *)
(*   BinaryExpr   c = 1 + 2;         (c, s and t are globals)              *)
(*   Concat       s = "ab" + "c";                                          *)
(*   Call         g();               (g has no parameters and no body)     *)
(*   Try          t = 1 + ... + e?;  a additions, e negative iff b         *)
(*   Return       return 0;                                                *)
(*   For          for i in 0..0 { }  (i is not declared)                   *)
(* Addresses are in bytes; the return address is at address 0 on entry.    *)
(***************************************************************************)
MaxFrameParams == 3

MaxFrameStmts == 2

MaxTryDepth == 1

MemWords == 16

FrStmt(k, a, b) == [k |-> k, a |-> a, b |-> b]

FrStmts ==
    {FrStmt(k, 0, FALSE) : k \in {"VarDecl", "BinaryExpr", "Concat", "Call", "Return", "For"}}
    \cup {FrStmt("AssignParam", p, FALSE) : p \in 1 .. MaxFrameParams}
    \cup {FrStmt("Try", d, neg) : d \in 0 .. MaxTryDepth, neg \in BOOLEAN}

FrFunctions ==
    {fn \in [kind : {"function", "method"}, nparams : 0 .. MaxFrameParams,
             body : SeqsUpTo(FrStmts, MaxFrameStmts)] :
        /\ fn.kind = "method" => fn.nparams = 0
        /\ \A i \in DOMAIN fn.body :
              fn.body[i].k = "AssignParam" => fn.body[i].a <= fn.nparams}

\* ---- the layout generate_function and generate_method compute ----
\* all_params: self comes first in a method
AllParams(fn) == fn.nparams + (IF fn.kind = "method" THEN 1 ELSE 0)

param_reg_pool(fn) ==
    IF fn.kind = "method" THEN <<"r14", "r15", "r13">> ELSE <<"r14", "r15">>

reg_param_count(fn) ==
    IF AllParams(fn) < Len(param_reg_pool(fn)) THEN AllParams(fn)
                                              ELSE Len(param_reg_pool(fn))

saved_regs(fn) == SubSeq(param_reg_pool(fn), 1, reg_param_count(fn))

\* collect_var_decls: the positions of the VarDecl statements of the body
Decls(fn) == {i \in DOMAIN fn.body : fn.body[i].k = "VarDecl"}

stack_bytes(fn) ==
    LET raw == (AllParams(fn) - reg_param_count(fn)) * 8 + 8 * Cardinality(Decls(fn))
    IN  IF (reg_param_count(fn) * 8 + raw) % 16 # 0 THEN raw + 8 ELSE raw

\* offset(%rbp) of the stack-resident parameter idx (1-based)
ParamOffset(fn, idx) == (0 - stack_bytes(fn)) + 8 * (idx - reg_param_count(fn) - 1)

\* offset(%rbp) of the local declared by statement i
LocalOffset(fn, i) ==
    (0 - stack_bytes(fn)) + 8 * (AllParams(fn) - reg_param_count(fn))
        + 8 * Cardinality({j \in Decls(fn) : j < i})

\* generate_for: offset(%rbp) of an undeclared loop variable, from the number
\* of symbols the function has
ForOffset(fn) == 0 - ((AllParams(fn) + Cardinality(Decls(fn))) * 8 + 8)

\* ---- the machine ----
CalleeSaved == {"rbx", "rbp", "r12", "r13", "r14", "r15"}

EntryRegs ==
    [rax |-> 0, rbx |-> 101, rbp |-> 102, rsp |-> 0,
     r12 |-> 112, r13 |-> 113, r14 |-> 114, r15 |-> 115]

Addresses == {0 - 8 * i : i \in 0 .. MemWords}

\* the return address the caller's call pushed, and the one a call in the
\* body pushes
ReturnAddresses == [caller |-> 90, body |-> 91]

\* the argument the caller passes for parameter idx, in %rdi, %rsi, %rdx, %rcx
ArgValue(idx) == 40 + idx

FrInit ==
    /\ frPc = "prologue"
    /\ frFn \in FrFunctions
    /\ frIdx = 0
    /\ regs = EntryRegs
    /\ mem = [a \in Addresses |-> IF a = 0 THEN ReturnAddresses.caller ELSE 0]
    /\ DrvIdle
    /\ IncIdle
    /\ LpIdle
    /\ SemIdle
    /\ DfIdle
    /\ IxIdle
    /\ GcIdle
    /\ CallIdle
    /\ AsIdle
    /\ UpIdle
    /\ LxIdle
    /\ CsIdle
    /\ WhIdle
    /\ PrIdle
    /\ TdIdle
    /\ BnIdle
    /\ EmIdle

FrOnly ==
    UNCHANGED <<drvVars, incVars, lpVars, semVars, dfVars, ixVars, gcVars, callVars, asVars, upVars, lxVars, csVars, whVars, prVars, tdVars, bnVars, emVars>>

Machine(r, m) == [regs |-> r, mem |-> m]

SetReg(s, r, v) == Machine([s.regs EXCEPT ![r] = v], s.mem)

\* movq %reg, offset(%rbp)
StoreAt(s, offset, v) == Machine(s.regs, [s.mem EXCEPT ![s.regs.rbp + offset] = v])

PushValue(s, v) ==
    Machine([s.regs EXCEPT !.rsp = @ - 8], [s.mem EXCEPT ![s.regs.rsp - 8] = v])

PopInto(s, r) ==
    Machine([[s.regs EXCEPT ![r] = s.mem[s.regs.rsp]] EXCEPT !.rsp = s.regs.rsp + 8], s.mem)

\* call of a function that keeps the callee-saved registers and returns v
CallReturning(s, v) ==
    Machine([s.regs EXCEPT !.rax = v], [s.mem EXCEPT ![s.regs.rsp - 8] = ReturnAddresses.body])

RECURSIVE PushAll(_, _)
PushAll(s, rs) == IF rs = <<>> THEN s ELSE PushAll(PushValue(s, s.regs[Head(rs)]), Tail(rs))

RECURSIVE PopAllReversed(_, _)
PopAllReversed(s, rs) ==
    IF rs = <<>> THEN s ELSE PopAllReversed(PopInto(s, rs[Len(rs)]), SubSeq(rs, 1, Len(rs) - 1))

RECURSIVE HomeParams(_, _, _)
\* "Move incoming parameter values to their homes", parameters idx ..
HomeParams(s, fn, idx) ==
    IF idx > AllParams(fn) THEN s
    ELSE HomeParams(IF idx <= reg_param_count(fn)
                       THEN SetReg(s, param_reg_pool(fn)[idx], ArgValue(idx))
                       ELSE StoreAt(s, ParamOffset(fn, idx), ArgValue(idx)),
                    fn, idx + 1)

\* push %rbp; movq %rsp, %rbp; push the saved registers; subq; the homes
Prologue(s, fn) ==
    LET s1 == PushValue(s, s.regs.rbp)
        s2 == SetReg(s1, "rbp", s1.regs.rsp)
        s3 == PushAll(s2, saved_regs(fn))
        s4 == SetReg(s3, "rsp", s3.regs.rsp - stack_bytes(fn))
    IN  HomeParams(s4, fn, 1)

\* the end label: addq; pop the saved registers; leave; ret
Epilogue(s, fn) ==
    LET s1 == SetReg(s, "rsp", s.regs.rsp + stack_bytes(fn))
        s2 == PopAllReversed(s1, saved_regs(fn))
        s3 == PopInto(SetReg(s2, "rsp", s2.regs.rbp), "rbp")
    IN  SetReg(s3, "rsp", s3.regs.rsp + 8)

\* generate_expression of the integer sum 1 + 2: the left operand is pushed,
\* the right one goes through %rbx
RunBinaryExpr(s) ==
    LET s1 == PushValue(SetReg(s, "rax", 1), 1)
        s2 == SetReg(SetReg(s1, "rax", 2), "rbx", 2)
    IN  SetReg(PopInto(s2, "rax"), "rax", 3)

\* generate_expression of "ab" + "c": left in %r15, right in %rbx, the length
\* of the left in %r14, the destination in %r13
RunConcat(s) ==
    LET left == 71
        right == 72
        dest == 73
        s1 == SetReg(SetReg(SetReg(s, "rax", left), "r15", left), "rbx", right)
        s2 == SetReg(CallReturning(s1, 2), "r14", 2)
        s3 == SetReg(CallReturning(CallReturning(s2, 1), dest), "r13", dest)
    IN  SetReg(CallReturning(CallReturning(s3, dest), dest), "rax", dest)

RECURSIVE PushOperands(_, _)
PushOperands(s, d) == IF d = 0 THEN s ELSE PushOperands(PushValue(SetReg(s, "rax", 1), 1), d - 1)

RECURSIVE AddOperands(_, _)
AddOperands(s, d) ==
    IF d = 0 THEN s
    ELSE LET s1 == SetReg(s, "rbx", s.regs.rax)
             s2 == PopInto(s1, "rax")
         IN  AddOperands(SetReg(s2, "rax", s2.regs.rax + s1.regs.rbx), d - 1)

\* generate_for on for i in 0..0 { }: the variable, at offset(%rbp), is pushed
\* and compared through %rbx before each of the two tests
RunFor(s, offset) ==
    LET s1 == StoreAt(SetReg(s, "rax", 0), offset, 0)
        s2 == PopInto(PushValue(s1, s1.mem[s1.regs.rbp + offset]), "rbx")
        s3 == StoreAt(s2, offset, s2.mem[s2.regs.rbp + offset] + 1)
        s4 == PopInto(PushValue(s3, s3.mem[s3.regs.rbp + offset]), "rbx")
    IN  SetReg(s4, "rax", 0)

\* the position in all_params of the explicit parameter a
ParamIndex(fn, a) == a + (IF fn.kind = "method" THEN 1 ELSE 0)

\* generate_assignment for a parameter: its home is a register or a slot
RunAssignParam(s, fn, p) ==
    IF p <= reg_param_count(fn) THEN SetReg(SetReg(s, "rax", 7), param_reg_pool(fn)[p], 7)
    ELSE StoreAt(SetReg(s, "rax", 7), ParamOffset(fn, p), 7)

\* the statement jumps to the end label
JumpsToEnd(st) == st.k = "Return" \/ (st.k = "Try" /\ st.b)

\* the code generate_statement emits for statement i, run
RunStatement(s, fn, i) ==
    LET st == fn.body[i] IN
    CASE st.k = "VarDecl" -> StoreAt(SetReg(s, "rax", 7), LocalOffset(fn, i), 7)
      [] st.k = "AssignParam" -> RunAssignParam(s, fn, ParamIndex(fn, st.a))
      [] st.k = "BinaryExpr" -> RunBinaryExpr(s)
      [] st.k = "Concat" -> RunConcat(s)
      [] st.k = "Call" -> CallReturning(s, 0)
      [] st.k = "Return" -> SetReg(s, "rax", 0)
      [] st.k = "For" -> RunFor(s, ForOffset(fn))
      [] st.k = "Try" ->
            LET pushed == PushOperands(s, st.a) IN
            IF st.b THEN SetReg(pushed, "rax", 0 - 1)
            ELSE AddOperands(SetReg(pushed, "rax", 1), st.a)

FrPrologue ==
    /\ frPc = "prologue"
    /\ LET s == Prologue(Machine(regs, mem), frFn) IN
          /\ regs' = s.regs
          /\ mem' = s.mem
    /\ frPc' = "body"
    /\ frIdx' = 1
    /\ UNCHANGED frFn
    /\ FrOnly

FrStatement ==
    /\ frPc = "body"
    /\ frIdx <= Len(frFn.body)
    /\ LET s == RunStatement(Machine(regs, mem), frFn, frIdx) IN
          /\ regs' = s.regs
          /\ mem' = s.mem
    /\ IF JumpsToEnd(frFn.body[frIdx])
          THEN frPc' = "epilogue" /\ UNCHANGED frIdx
          ELSE frIdx' = frIdx + 1 /\ UNCHANGED frPc
    /\ UNCHANGED frFn
    /\ FrOnly

\* the implicit return at the end of the body
FrFallThrough ==
    /\ frPc = "body"
    /\ frIdx > Len(frFn.body)
    /\ frPc' = "epilogue"
    /\ UNCHANGED <<frFn, frIdx, regs, mem>>
    /\ FrOnly

FrEpilogue ==
    /\ frPc = "epilogue"
    /\ LET s == Epilogue(Machine(regs, mem), frFn) IN
          /\ regs' = s.regs
          /\ mem' = s.mem
    /\ frPc' = "returned"
    /\ UNCHANGED <<frFn, frIdx>>
    /\ FrOnly

FrNext ==
    \/ FrPrologue
    \/ FrStatement
    \/ FrFallThrough
    \/ FrEpilogue

SpecFrame == FrInit /\ [][FrNext]_vars

\* C18: when the function returns, the callee-saved registers hold their
\* entry values and ret has popped the return address the caller pushed
C18_CalleeSavedPreserved ==
    frPc = "returned" =>
        /\ \A r \in CalleeSaved : regs[r] = EntryRegs[r]
        /\ regs.rsp = EntryRegs.rsp + 8

\* C19: while the body runs, a parameter's home register changes only in a
\* statement that assigns to that parameter
C19_ParamHomeStable ==
    [][(frPc = "body" /\ frIdx <= Len(frFn.body)) =>
          \A p \in 1 .. reg_param_count(frFn) :
              regs'[param_reg_pool(frFn)[p]] # regs[param_reg_pool(frFn)[p]] =>
                  /\ frFn.body[frIdx].k = "AssignParam"
                  /\ ParamIndex(frFn, frFn.body[frIdx].a) = p]_vars

\* the stack slots of the symbols of the function: the stack-resident
\* parameters, the locals, and the variable of a for loop
FrameSlots(fn) ==
    {[name |-> <<"param", idx>>, offset |-> ParamOffset(fn, idx)] :
        idx \in (reg_param_count(fn) + 1) .. AllParams(fn)}
    \cup {[name |-> <<"local", i>>, offset |-> LocalOffset(fn, i)] : i \in Decls(fn)}
    \cup {[name |-> <<"for", 0>>, offset |-> ForOffset(fn)] :
             i \in {j \in DOMAIN fn.body : fn.body[j].k = "For"}}

\* the offsets from %rbp of the words the prologue's subq reserves
ReservedOffsets(fn) ==
    {o \in {0 - 8 * i : i \in 1 .. MemWords} :
        /\ o >= 0 - (8 * reg_param_count(fn) + stack_bytes(fn))
        /\ o < 0 - 8 * reg_param_count(fn)}

\* the offsets of the pushed registers, the saved %rbp and the return address
SavedOffsets(fn) == {0 - 8 * i : i \in 1 .. reg_param_count(fn)} \cup {0, 8}

\* C20: the slots are pairwise distinct, lie in the region the prologue
\* reserves and overlap neither a pushed register, nor the saved %rbp, nor
\* the return address
C20_FrameLayout ==
    frPc \notin {"idle", "prologue"} =>
        /\ \A a, b \in FrameSlots(frFn) : a.name # b.name => a.offset # b.offset
        /\ \A a \in FrameSlots(frFn) :
              /\ a.offset \in ReservedOffsets(frFn)
              /\ a.offset \notin SavedOffsets(frFn)

(***************************************************************************)
(* CALL SEQUENCES                                                          *)
(*                                                                         *)
(* Main() { var x = ...; <expression>; }: the code generate_expression     *)
(* emits for the expression statement, run one instruction at a time.      *)
(* Argument i of a call is the literal 10 + i or the call e_i() of a user  *)
(* function without parameters that returns 10 + i; f is a user function   *)
(* that declares as many parameters as the call passes, m a method.        *)
(* Main's frame: the return address at FrameBase + 8, the saved %rbp at    *)
(* FrameBase, the padding word at -8(%rbp) and x at -16(%rbp), where %rsp  *)
(* points when the statement starts.  FrameBase is a multiple of 16: the   *)
(* entry stub calls Main with %rsp a multiple of 16.                       *)
(***************************************************************************)
MaxArgs == 8

FrameBase == 16 * (MaxArgs + 2)

ArgVal(i) == 10 + i

Expr(k, name, id, args) == [k |-> k, name |-> name, id |-> id, args |-> args]

IntegerLiteral(i) == Expr("IntegerLiteral", "", i, <<>>)

Identifier == Expr("Identifier", "x", 0, <<>>)

Effect(i) == Expr("FunctionCall", "e", i, <<>>)

FunctionCall(name, args) == Expr("FunctionCall", name, 0, args)

MethodCall(receiver, args) == Expr("MethodCall", "m", 0, <<receiver>> \o args)

BinaryExpr(left, right) == Expr("BinaryExpr", "+", 0, <<left, right>>)

IndexExpr(receiver, index) == Expr("IndexExpr", "", 0, <<receiver, index>>)

\* the argument lists of length n
ArgLists(n) == {as \in [1 .. n -> {"IntegerLiteral", "FunctionCall"}] : TRUE}

ArgsOf(kinds) ==
    [i \in DOMAIN kinds |-> IF kinds[i] = "IntegerLiteral" THEN IntegerLiteral(i) ELSE Effect(i)]

Arguments(n) == {ArgsOf(kinds) : kinds \in ArgLists(n)}

\* the builtins whose arguments generate_function_call evaluates itself
BuiltinArity ==
    [TcpConnect |-> 2, TcpSend |-> 2, TlsConnect |-> 2, HttpGet |-> 3, HttpDownload |-> 4]

CsExprs ==
    {FunctionCall("f", as) : as \in UNION {Arguments(n) : n \in 1 .. MaxArgs}}
    \cup {MethodCall(Identifier, as) : as \in UNION {Arguments(n) : n \in 0 .. MaxArgs - 1}}
    \cup UNION {{FunctionCall(b, as) : as \in Arguments(BuiltinArity[b])} :
                   b \in DOMAIN BuiltinArity}
    \cup {BinaryExpr(l, r) : l, r \in {IntegerLiteral(1), Effect(1)}}
    \cup {BinaryExpr(IntegerLiteral(1), FunctionCall("f", as)) : as \in Arguments(2)}
    \cup {IndexExpr(Identifier, i) : i \in {IntegerLiteral(1), Effect(1)}}

CsAddresses == {8 * a : a \in 0 .. (FrameBase \div 8) + 1}

CsInit ==
    /\ csPc = "emit"
    /\ csExpr \in CsExprs
    /\ csCode = <<>>
    /\ csIp = 0
    /\ csRegs = [rax |-> 0, rbx |-> 0, rcx |-> 0, rdx |-> 0, rdi |-> 0, rsi |-> 0,
                 r8 |-> 0, r9 |-> 0, rsp |-> FrameBase - 16, rbp |-> FrameBase]
    /\ \E x \in {0, ArgVal(7)}, pad \in {0, ArgVal(8)} :
          csMem = [a \in CsAddresses |->
                      CASE a = FrameBase - 16 -> x
                        [] a = FrameBase - 8 -> pad
                        [] OTHER -> 0]
    /\ csLog = <<>>
    /\ DrvIdle
    /\ IncIdle
    /\ LpIdle
    /\ SemIdle
    /\ DfIdle
    /\ IxIdle
    /\ GcIdle
    /\ CallIdle
    /\ AsIdle
    /\ UpIdle
    /\ LxIdle
    /\ FrIdle
    /\ WhIdle
    /\ PrIdle
    /\ TdIdle
    /\ BnIdle
    /\ EmIdle

CsOnly ==
    UNCHANGED <<drvVars, incVars, lpVars, semVars, dfVars, ixVars, gcVars, callVars, asVars, upVars, lxVars, frVars, whVars, prVars, tdVars, bnVars, emVars>>

\* ---- the emitted code ----
\* an instruction; for a call, a is the callee and n the number of parameters
\* it declares (for e, the i of e_i)
Instr(op, a, n) == [op |-> op, a |-> a, n |-> n]

PushRax == <<Instr("push", "rax", 0)>>

arg_regs == <<"rdi", "rsi", "rdx", "rcx", "r8", "r9">>

RECURSIVE EmitExpression(_)

RECURSIVE EmitReversed(_)
\* for arg in reversed(full_args): generate_expression(arg); push %rax
EmitReversed(args) ==
    IF args = <<>> THEN <<>>
    ELSE EmitExpression(args[Len(args)]) \o PushRax
            \o EmitReversed(SubSeq(args, 1, Len(args) - 1))

RECURSIVE EmitInOrder(_)
\* generate_expression(arguments[0]); push %rax; generate_expression(arguments[1]); ...
\* for all the arguments but the last, which stays in %rax
EmitInOrder(args) ==
    IF Len(args) = 1 THEN EmitExpression(args[1])
    ELSE EmitExpression(args[1]) \o PushRax \o EmitInOrder(Tail(args))

\* pop the first arguments into the registers, in order
PopArguments(n) ==
    [idx \in 1 .. (IF n < Len(arg_regs) THEN n ELSE Len(arg_regs)) |->
        Instr("pop", arg_regs[idx], 0)]

\* pop %rdx; pop %rsi; pop %rdi for the arguments an in-order builtin pushed
PopPushed(n) == [k \in 1 .. n |-> Instr("pop", arg_regs[n + 1 - k], 0)]

\* the generic call of generate_function_call, and generate_method_call
EmitGenericCall(name, id, all_args) ==
    LET arg_count == Len(all_args) IN
    EmitReversed(all_args)
        \o PopArguments(arg_count)
        \o (IF arg_count > Len(arg_regs)
               THEN <<Instr("addq", "rsp", (arg_count - Len(arg_regs)) * 8)>>
               ELSE <<>>)
        \o <<Instr("call", name, IF name = "e" THEN id ELSE arg_count)>>

\* the builtins of generate_function_call
EmitBuiltinCall(name, args) ==
    IF name = "TcpSend"
        THEN EmitExpression(args[2]) \o PushRax \o EmitExpression(args[1])
                \o <<Instr("mov", "rdi", 0), Instr("pop", "rsi", 0),
                     Instr("call", name, Len(args))>>
        ELSE EmitInOrder(args)
                \o <<Instr("mov", arg_regs[Len(args)], 0)>>
                \o PopPushed(Len(args) - 1)
                \o <<Instr("call", name, Len(args))>>

\* generate_expression
EmitExpression(e) ==
    CASE e.k = "IntegerLiteral" -> <<Instr("movi", "rax", ArgVal(e.id))>>
      [] e.k = "Identifier" -> <<Instr("load", "rax", 0 - 16)>>
      [] e.k = "FunctionCall" ->
            IF e.name \in DOMAIN BuiltinArity THEN EmitBuiltinCall(e.name, e.args)
            ELSE EmitGenericCall(e.name, e.id, e.args)
      [] e.k = "MethodCall" -> EmitGenericCall(e.name, e.id, e.args)
      [] e.k = "BinaryExpr" ->
            EmitExpression(e.args[1]) \o PushRax \o EmitExpression(e.args[2])
                \o <<Instr("mov", "rbx", 0), Instr("pop", "rax", 0), Instr("add", "rax", 0)>>
      [] e.k = "IndexExpr" ->
            EmitExpression(e.args[1]) \o PushRax \o EmitExpression(e.args[2])
                \o <<Instr("mov", "rcx", 0), Instr("pop", "rbx", 0), Instr("index", "rax", 0)>>

CsEmit ==
    /\ csPc = "emit"
    /\ csCode' = EmitExpression(csExpr)
    /\ csIp' = 1
    /\ csPc' = "run"
    /\ UNCHANGED <<csExpr, csRegs, csMem, csLog>>
    /\ CsOnly

\* ---- the execution ----
CsAt(ops) ==
    /\ csPc = "run"
    /\ csIp <= Len(csCode)
    /\ csCode[csIp].op \in ops

CsIns == csCode[csIp]

CsGoOn ==
    /\ csIp' = csIp + 1
    /\ UNCHANGED <<csPc, csExpr, csCode>>
    /\ CsOnly

\* movq $n, %rax; movq n(%rbp), %rax; movq %rax, %reg; addq %rbx, %rax; the
\* bounds check and the load of an element (Main's x holds no array: the
\* value loaded is of no interest here)
CsMove ==
    /\ CsAt({"movi", "load", "mov", "add", "index"})
    /\ csRegs' =
          CASE CsIns.op = "movi" -> [csRegs EXCEPT !.rax = CsIns.n]
            [] CsIns.op = "load" -> [csRegs EXCEPT !.rax = csMem[csRegs.rbp + CsIns.n]]
            [] CsIns.op = "mov" -> [csRegs EXCEPT ![CsIns.a] = csRegs.rax]
            [] CsIns.op = "add" -> [csRegs EXCEPT !.rax = csRegs.rax + csRegs.rbx]
            [] CsIns.op = "index" -> [csRegs EXCEPT !.rax = 0]
    /\ UNCHANGED <<csMem, csLog>>
    /\ CsGoOn

CsPush ==
    /\ CsAt({"push"})
    /\ csMem' = [csMem EXCEPT ![csRegs.rsp - 8] = csRegs[CsIns.a]]
    /\ csRegs' = [csRegs EXCEPT !.rsp = @ - 8]
    /\ UNCHANGED csLog
    /\ CsGoOn

CsPop ==
    /\ CsAt({"pop"})
    /\ csRegs' = [[csRegs EXCEPT ![CsIns.a] = csMem[csRegs.rsp]] EXCEPT !.rsp = csRegs.rsp + 8]
    /\ UNCHANGED <<csMem, csLog>>
    /\ CsGoOn

\* addq $n, %rsp
CsAddRsp ==
    /\ CsAt({"addq"})
    /\ csRegs' = [csRegs EXCEPT !.rsp = @ + CsIns.n]
    /\ UNCHANGED <<csMem, csLog>>
    /\ CsGoOn

\* what the prologue generate_function emits for the callee moves into the
\* home of parameter idx: an argument register, or src_offset(%rbp) with
\* src_offset = 16 + (idx - 6) * 8 for the 0-based idx, %rbp being 16 below the
\* %rsp of the call instruction
Received(idx) ==
    IF idx <= Len(arg_regs) THEN csRegs[arg_regs[idx]]
    ELSE csMem[csRegs.rsp + 8 * (idx - Len(arg_regs) - 1)]

\* call: the return address is pushed, the callee runs and returns with its
\* value in %rax and %rsp as it was
CsCall ==
    /\ CsAt({"call"})
    /\ csLog' = Append(csLog,
          [name |-> CsIns.a,
           id |-> IF CsIns.a = "e" THEN CsIns.n ELSE 0,
           rsp |-> csRegs.rsp,
           params |-> IF CsIns.a = "e" THEN <<>>
                      ELSE [idx \in 1 .. CsIns.n |-> Received(idx)]])
    /\ csMem' = [csMem EXCEPT ![csRegs.rsp - 8] = 0]
    /\ csRegs' = [csRegs EXCEPT !.rax = IF CsIns.a = "e" THEN ArgVal(CsIns.n) ELSE 0]
    /\ CsGoOn

CsFinish ==
    /\ csPc = "run"
    /\ csIp > Len(csCode)
    /\ csPc' = "done"
    /\ UNCHANGED <<csExpr, csCode, csIp, csRegs, csMem, csLog>>
    /\ CsOnly

CsNext ==
    \/ CsEmit
    \/ CsMove
    \/ CsPush
    \/ CsPop
    \/ CsAddRsp
    \/ CsCall
    \/ CsFinish

SpecSeq == CsInit /\ [][CsNext]_vars

\* ---- what the specification says about calls ----
\* the value of an argument expression
ValueOf(e) == ArgVal(e.id)

\* the explicit arguments of a call expression
ExplicitArgs(e) == IF e.k = "MethodCall" THEN Tail(e.args) ELSE e.args

\* the entry of the log for the call of the statement itself
OwnCall(log) == log[Len(log)]

\* C21: a user function called with more than six arguments receives in
\* each parameter the value of the corresponding argument: the first six
\* through the registers, the others through 16 + 8 * (k - 7) from its %rbp
C21_StackArgumentsArrive ==
    (csPc = "done" /\ csExpr.k = "FunctionCall" /\ csExpr.name = "f"
        /\ Len(csExpr.args) > Len(arg_regs)) =>
            \A k \in DOMAIN csExpr.args :
                OwnCall(csLog).params[k] = ValueOf(csExpr.args[k])

\* C22: %rsp is a multiple of 16 at every call instruction
C22_StackAligned ==
    \A k \in DOMAIN csLog : csLog[k].rsp % 16 = 0

\* the position in the log of the call argument i makes, 0 if it makes none
EffectAt(log, i) ==
    IF \E k \in DOMAIN log : log[k].name = "e" /\ log[k].id = i
        THEN CHOOSE k \in DOMAIN log : log[k].name = "e" /\ log[k].id = i
        ELSE 0

\* C24: the side effects of argument i + 1 of a call occur before those of
\* argument i
C24_RightToLeft ==
    (csPc = "done" /\ csExpr.k \in {"FunctionCall", "MethodCall"}) =>
        \A i, j \in DOMAIN ExplicitArgs(csExpr) :
            (i < j /\ EffectAt(csLog, i) # 0 /\ EffectAt(csLog, j) # 0) =>
                EffectAt(csLog, j) < EffectAt(csLog, i)

(***************************************************************************)
(* COUNTER LOOPS                                                           *)
(*                                                                         *)
(* while (i <op> limit) { i = i <sign> step; } with i a local, a global    *)
(* or a register-resident parameter: the code generate_while emits when    *)
(* _try_generate_counter_while declines (the generic lowering) and the     *)
(* code _try_generate_counter_while emits, each run from the same value    *)
(* of i.  Words have WordBits bits and the immediate operand of addq has   *)
(* ImmBits bits, as 64-bit words and 32-bit immediates do.  The literals   *)
(* are the non-negative words.  The counter is named i or argc; the        *)
(* process was started without arguments.                                  *)
(***************************************************************************)
ImmBits == 2

LoopLiterals == 0 .. (Modulus \div 2 - 1)

\* a loop runs for ever if it has not left after Modulus iterations
MaxLoopIters == Modulus

Homes == {"local", "global", "param"}

WhLoops ==
    [name : {"i", "argc"}, op : {"<", "<=", ">", ">="}, limit : LoopLiterals,
     sign : {"+", "-"}, step : LoopLiterals, home : Homes]

\* get_variable_location of the counter's symbol
get_variable_location(home) ==
    CASE home = "param" -> "%r14"
      [] home = "global" -> "i(%rip)"
      [] home = "local" -> "-16(%rbp)"

Locations == {get_variable_location(h) : h \in Homes} \cup {"argc_store(%rip)"}

WhInit ==
    /\ whPc = "emit"
    /\ whLoop \in WhLoops
    /\ whStart \in Words
    /\ whGeneric = <<>>
    /\ whFast = <<>>
    /\ DrvIdle
    /\ IncIdle
    /\ LpIdle
    /\ SemIdle
    /\ DfIdle
    /\ IxIdle
    /\ GcIdle
    /\ CallIdle
    /\ AsIdle
    /\ UpIdle
    /\ LxIdle
    /\ FrIdle
    /\ CsIdle
    /\ PrIdle
    /\ TdIdle
    /\ BnIdle
    /\ EmIdle

WhOnly ==
    UNCHANGED <<drvVars, incVars, lpVars, semVars, dfVars, ixVars, gcVars, callVars, asVars, upVars, lxVars, frVars, csVars, prVars, tdVars, bnVars, emVars>>

Wrap(n) == n % Modulus

\* step_val: the literal, negated for `-`
step_val(loop) == IF loop.sign = "+" THEN loop.step ELSE 0 - loop.step

\* the assembler accepts addq $n, %rax only if n is a sign-extended immediate
Encodable(n) == n >= 0 - 2 ^ (ImmBits - 1) /\ n < 2 ^ (ImmBits - 1)

\* the stores before the loop: the counter's home holds whStart
StoreAtLoop(loop, v) ==
    [l \in Locations |->
        CASE l = get_variable_location(loop.home) -> v
          [] l = "argc_store(%rip)" -> 1
          [] OTHER -> 0]

\* both lowerings are generated and assembled
WhEmit ==
    /\ whPc = "emit"
    /\ whPc' = "run"
    /\ whGeneric' = [state |-> "run", store |-> StoreAtLoop(whLoop, whStart), iters |-> 0]
    /\ whFast' = [state |-> IF Encodable(step_val(whLoop)) THEN "load" ELSE "rejected",
                  rax |-> 0, rbx |-> 0,
                  store |-> StoreAtLoop(whLoop, whStart), iters |-> 0]
    /\ UNCHANGED <<whLoop, whStart>>
    /\ WhOnly

\* ---- the generic lowering ----
\* cmpq %rbx, %rax; setl / setle / setg / setge %al on signed operands
SetCC(op, a, b) ==
    CASE op = "<" -> Signed(a) < Signed(b)
      [] op = "<=" -> Signed(a) <= Signed(b)
      [] op = ">" -> Signed(a) > Signed(b)
      [] op = ">=" -> Signed(a) >= Signed(b)

\* addq %rbx, %rax or subq %rbx, %rax
Arith(sign, a, b) == IF sign = "+" THEN Wrap(a + b) ELSE Wrap(a - b)

\* generate_expression of the Identifier: movq location, %rax
ReadIdentifier(loop, store) ==
    IF loop.name = "argc" THEN store["argc_store(%rip)"]
    ELSE store[get_variable_location(loop.home)]

\* the condition is evaluated; je endwhile, or the body and jmp while
WhGenericIteration ==
    /\ whPc = "run"
    /\ whGeneric.state = "run"
    /\ whGeneric.iters < MaxLoopIters
    /\ LET loc == get_variable_location(whLoop.home)
           i == ReadIdentifier(whLoop, whGeneric.store)
       IN  whGeneric' =
              IF SetCC(whLoop.op, i, whLoop.limit)
                  THEN [whGeneric EXCEPT !.store[loc] = Arith(whLoop.sign, i, whLoop.step),
                                         !.iters = @ + 1]
                  ELSE [whGeneric EXCEPT !.state = "exit"]
    /\ UNCHANGED <<whPc, whLoop, whStart, whFast>>
    /\ WhOnly

\* ---- the register-resident lowering ----
jmp_map(op) ==
    CASE op = "<" -> "jge"
      [] op = "<=" -> "jg"
      [] op = ">" -> "jle"
      [] op = ">=" -> "jl"

\* cmpq %rbx, %rax; jcc
JumpTaken(jcc, a, b) ==
    CASE jcc = "jge" -> Signed(a) >= Signed(b)
      [] jcc = "jg" -> Signed(a) > Signed(b)
      [] jcc = "jle" -> Signed(a) <= Signed(b)
      [] jcc = "jl" -> Signed(a) < Signed(b)

\* movq home, %rax; movq $limit, %rbx
WhFastLoad ==
    /\ whPc = "run"
    /\ whFast.state = "load"
    /\ whFast' = [whFast EXCEPT !.state = "run",
                                !.rax = whFast.store[get_variable_location(whLoop.home)],
                                !.rbx = whLoop.limit]
    /\ UNCHANGED <<whPc, whLoop, whStart, whGeneric>>
    /\ WhOnly

\* cmpq; jcc endwhile_fast; incq / decq / addq $step_val; jmp while_fast
WhFastIteration ==
    /\ whPc = "run"
    /\ whFast.state = "run"
    /\ whFast.iters < MaxLoopIters
    /\ whFast' =
          IF JumpTaken(jmp_map(whLoop.op), whFast.rax, whFast.rbx)
              THEN [whFast EXCEPT !.state = "store"]
              ELSE [whFast EXCEPT !.rax = Wrap(@ + step_val(whLoop)), !.iters = @ + 1]
    /\ UNCHANGED <<whPc, whLoop, whStart, whGeneric>>
    /\ WhOnly

\* endwhile_fast: movq %rax, home
WhFastStore ==
    /\ whPc = "run"
    /\ whFast.state = "store"
    /\ whFast' = [whFast EXCEPT !.state = "exit",
                                !.store[get_variable_location(whLoop.home)] = whFast.rax]
    /\ UNCHANGED <<whPc, whLoop, whStart, whGeneric>>
    /\ WhOnly

WhNext ==
    \/ WhEmit
    \/ WhGenericIteration
    \/ WhFastLoad
    \/ WhFastIteration
    \/ WhFastStore

SpecWhile == WhInit /\ [][WhNext]_vars

\* ---- what the specification says about the counter loop ----
\* the lowering never leaves the loop: it did not assemble, or it has run
\* MaxLoopIters iterations
NeverExits(m) ==
    m.state = "rejected" \/ (m.state = "run" /\ m.iters = MaxLoopIters)

\* C23: the register-resident loop and the generic lowering run the same
\* number of iterations and leave the same values in the counter's home (and
\* touch no other), and neither leaves the loop when the other never does
C23_CounterLoopEquivalent ==
    whPc = "run" =>
        /\ (whGeneric.state = "exit" /\ whFast.state = "exit") =>
              /\ whFast.iters = whGeneric.iters
              /\ whFast.store = whGeneric.store
        /\ ~(whGeneric.state = "exit" /\ NeverExits(whFast))
        /\ ~(whFast.state = "exit" /\ NeverExits(whGeneric))

(***************************************************************************)
(* EXPRESSIONS                                                             *)
(*                                                                         *)
(* var x = e; where e is [-] a op b op c op d: the source is lexed one     *)
(* lexeme at a time, then parse_expression builds the tree of e and        *)
(* parse_statement requires the semicolon.  A tree is [op, kids]: a        *)
(* leaf has no kids, a UnaryExpr one, a BinaryExpr two.                    *)
(***************************************************************************)
MaxOps == 3

OperatorLexemes ==
    {"||", "&&", "==", "!=", "<", ">", "<=", ">=", "+", "-", "*", "/"}

Operands == <<"a", "b", "c", "d">>

\* the lexemes of a op1 b op2 c ...
Chain(ops) ==
    [i \in 1 .. (2 * Len(ops) + 1) |->
        IF i % 2 = 1 THEN Operands[(i + 1) \div 2] ELSE ops[i \div 2]]

ExprSources ==
    LET chains == {Chain(ops) : ops \in SeqsUpTo(OperatorLexemes, MaxOps)}
    IN  {c \o <<";">> : c \in chains} \cup {<<"-">> \o c \o <<";">> : c \in chains}

PrInit ==
    /\ prPc = "lex"
    /\ prSrc \in ExprSources
    /\ prTokens = <<>>
    /\ prTree = <<>>
    /\ prAccepted = "none"
    /\ DrvIdle
    /\ IncIdle
    /\ LpIdle
    /\ SemIdle
    /\ DfIdle
    /\ IxIdle
    /\ GcIdle
    /\ CallIdle
    /\ AsIdle
    /\ UpIdle
    /\ LxIdle
    /\ FrIdle
    /\ CsIdle
    /\ WhIdle
    /\ TdIdle
    /\ BnIdle
    /\ EmIdle

PrOnly ==
    UNCHANGED <<drvVars, incVars, lpVars, semVars, dfVars, ixVars, gcVars, callVars, asVars, upVars, lxVars, frVars, csVars, whVars, tdVars, bnVars, emVars>>

Node(op, kids) == [op |-> op, kids |-> kids]

\* the result of a parse function: the node and the position after it, or
\* the SyntaxError
Parsed(node, p) == [node |-> <<node>>, p |-> p]

SyntaxError == [node |-> <<>>, p |-> 0]

TypeAt(ts, p) == IF p \in DOMAIN ts THEN ts[p].type ELSE "None"

\* parse_primary, for plain identifiers and integer literals
parse_primary(ts, p) ==
    IF TypeAt(ts, p) \in {"IDENTIFIER", "INTEGER"} THEN Parsed(Node(ts[p].value, <<>>), p + 1)
    ELSE SyntaxError

RECURSIVE parse_unary(_, _)
parse_unary(ts, p) ==
    IF TypeAt(ts, p) \in {"PLUS", "MINUS", "NOT"}
        THEN LET operand == parse_unary(ts, p + 1) IN
             IF operand = SyntaxError THEN SyntaxError
             ELSE Parsed(Node(ts[p].value, operand.node), operand.p)
        ELSE parse_primary(ts, p)

\* a BinaryExpr that grows to the left
Grown(ts, left, right) == Parsed(Node(ts[left.p].value, left.node \o right.node), right.p)

RECURSIVE FactorLoop(_, _)
\* while current_token.type in ['STAR', 'SLASH']: right = parse_unary()
FactorLoop(ts, left) ==
    IF left = SyntaxError \/ TypeAt(ts, left.p) \notin {"STAR", "SLASH"} THEN left
    ELSE LET right == parse_unary(ts, left.p + 1) IN
         IF right = SyntaxError THEN SyntaxError ELSE FactorLoop(ts, Grown(ts, left, right))

parse_factor(ts, p) == FactorLoop(ts, parse_unary(ts, p))

RECURSIVE TermLoop(_, _)
\* while current_token.type in ['PLUS', 'MINUS']: right = parse_factor()
TermLoop(ts, left) ==
    IF left = SyntaxError \/ TypeAt(ts, left.p) \notin {"PLUS", "MINUS"} THEN left
    ELSE LET right == parse_factor(ts, left.p + 1) IN
         IF right = SyntaxError THEN SyntaxError ELSE TermLoop(ts, Grown(ts, left, right))

parse_term(ts, p) == TermLoop(ts, parse_factor(ts, p))

RECURSIVE ComparisonLoop(_, _)
\* while current_token.type in ['LT', 'GT', 'LE', 'GE', 'EQ', 'NE']: right = parse_term()
ComparisonLoop(ts, left) ==
    IF left = SyntaxError \/ TypeAt(ts, left.p) \notin {"LT", "GT", "LE", "GE", "EQ", "NE"}
        THEN left
    ELSE LET right == parse_term(ts, left.p + 1) IN
         IF right = SyntaxError THEN SyntaxError ELSE ComparisonLoop(ts, Grown(ts, left, right))

parse_comparison(ts, p) == ComparisonLoop(ts, parse_term(ts, p))

parse_expression(ts, p) == parse_comparison(ts, p)

\* next_token on the next lexeme
PrLexToken ==
    /\ prPc = "lex"
    /\ Len(prTokens) < Len(prSrc)
    /\ LET lexeme == prSrc[Len(prTokens) + 1]
           type == NextTokenType(lexeme)
       IN  IF type = "SyntaxError"
              THEN /\ prPc' = "done"
                   /\ prAccepted' = FALSE
                   /\ UNCHANGED prTokens
              ELSE /\ prTokens' = Append(prTokens, [type |-> type, value |-> lexeme])
                   /\ UNCHANGED <<prPc, prAccepted>>
    /\ UNCHANGED <<prSrc, prTree>>
    /\ PrOnly

PrLexEOF ==
    /\ prPc = "lex"
    /\ Len(prTokens) = Len(prSrc)
    /\ prTokens' = Append(prTokens, [type |-> "EOF", value |-> ""])
    /\ prPc' = "parse"
    /\ UNCHANGED <<prSrc, prTree, prAccepted>>
    /\ PrOnly

\* parse_var_decl after `var x =`, then the semicolon parse_statement requires
PrParse ==
    /\ prPc = "parse"
    /\ LET value == parse_expression(prTokens, 1) IN
          /\ prTree' = value.node
          /\ prAccepted' = (value # SyntaxError /\ TypeAt(prTokens, value.p) = "SEMICOLON")
    /\ prPc' = "done"
    /\ UNCHANGED <<prSrc, prTokens>>
    /\ PrOnly

PrNext ==
    \/ PrLexToken
    \/ PrLexEOF
    \/ PrParse

SpecPrec == PrInit /\ [][PrNext]_vars

\* ---- what the specification says about precedence ----
\* the levels, lowest first; unary operators bind tighter than all of them
Levels ==
    <<{"||"}, {"&&"}, {"==", "!="}, {"<", ">", "<=", ">="}, {"+", "-"}, {"*", "/"}>>

LexemeAt(src, p) == IF p \in DOMAIN src THEN src[p] ELSE ""

RECURSIVE TreeAtLevel(_, _, _)

RECURSIVE GrowLeft(_, _, _)
GrowLeft(src, left, lvl) ==
    IF LexemeAt(src, left.p) \notin Levels[lvl] THEN left
    ELSE LET right == TreeAtLevel(src, left.p + 1, lvl + 1) IN
         GrowLeft(src, Parsed(Node(src[left.p], left.node \o right.node), right.p), lvl)

\* the tree of the expression that starts at lexeme p, operators of level
\* lvl and above only
TreeAtLevel(src, p, lvl) ==
    IF lvl > Len(Levels)
        THEN IF LexemeAt(src, p) = "-"
                THEN LET operand == TreeAtLevel(src, p + 1, lvl) IN
                     Parsed(Node("-", operand.node), operand.p)
                ELSE Parsed(Node(src[p], <<>>), p + 1)
        ELSE GrowLeft(src, TreeAtLevel(src, p, lvl + 1), lvl)

\* C25: the statement parses, and the tree of its initializer is the one the
\* precedence levels give: a < b == c < d is (a < b) == (c < d), and so on
C25_Precedence ==
    prPc = "done" =>
        /\ prAccepted = TRUE
        /\ prTree = TreeAtLevel(prSrc, 1, 1).node

(***************************************************************************)
(* TYPED DECLARATIONS                                                      *)
(*                                                                         *)
(* x is declared with the type T, in Main or at top level; the value e is  *)
(* its initializer (var T x = e;) or is assigned to it by the next         *)
(* statement (var T x; x = e;).  e is a literal, null, a variable y or     *)
(* the address of y.  A type is the sequence of the tokens of its name.    *)
(***************************************************************************)
BaseTypes == {<<"int">>, <<"dec">>, <<"string">>, <<"bool">>}

PointerTo(t) == <<"*">> \o t

DeclaredTypes == BaseTypes \cup {PointerTo(<<"int">>), PointerTo(<<"dec">>)}

\* e: [k, t], t the literal_type of a Literal or the type y was declared with
InitValues ==
    [k : {"Literal", "Identifier"}, t : BaseTypes]
    \cup [k : {"AddressOf"}, t : {<<"int">>, <<"dec">>}]
    \cup [k : {"NullLiteral"}, t : {<<>>}]

TdStmts ==
    [unit : {"local", "global"}, form : {"VarDecl", "Assignment"},
     var_type : DeclaredTypes, value : InitValues]

TdInit ==
    /\ tdPc = "decl"
    /\ tdStmt \in TdStmts
    /\ tdTable = <<>>
    /\ tdVerdict = "none"
    /\ DrvIdle
    /\ IncIdle
    /\ LpIdle
    /\ SemIdle
    /\ DfIdle
    /\ IxIdle
    /\ GcIdle
    /\ CallIdle
    /\ AsIdle
    /\ UpIdle
    /\ LxIdle
    /\ FrIdle
    /\ CsIdle
    /\ WhIdle
    /\ PrIdle
    /\ BnIdle
    /\ EmIdle

TdOnly ==
    UNCHANGED <<drvVars, incVars, lpVars, semVars, dfVars, ixVars, gcVars, callVars, asVars, upVars, lxVars, frVars, csVars, whVars, prVars, bnVars, emVars>>

\* _type_of_expression
TypeOfValue(e) ==
    CASE e.k = "Literal" -> e.t
      [] e.k = "NullLiteral" -> PointerTo(<<"void">>)
      [] e.k = "Identifier" -> e.t
      [] e.k = "AddressOf" -> PointerTo(e.t)

\* _ensure_assignable: TRUE if it returns, FALSE if it raises
ensure_assignable(expected, actual) ==
    \/ expected = actual
    \/ expected = <<"dec">> /\ actual = <<"int">>
    \/ Head(expected) = "*" /\ actual = PointerTo(<<"void">>)

\* the VarDecl: _type_check_statement in Main, _define_var and type_check at
\* top level.  With an initializer its type is computed; the table gets the
\* declared type
TdVarDecl ==
    /\ tdPc = "decl"
    /\ LET value_type == IF tdStmt.form = "VarDecl" THEN TypeOfValue(tdStmt.value) ELSE <<>>
           decl_type == IF tdStmt.var_type # <<>> THEN tdStmt.var_type
                        ELSE IF value_type # <<>> THEN value_type ELSE <<"int">>
       IN  tdTable' = <<decl_type>>
    /\ IF tdStmt.form = "VarDecl"
          THEN tdPc' = "done" /\ tdVerdict' = "accepted"
          ELSE tdPc' = "assign" /\ UNCHANGED tdVerdict
    /\ UNCHANGED tdStmt
    /\ TdOnly

\* the Assignment x = e
TdAssignment ==
    /\ tdPc = "assign"
    /\ LET target_type == tdTable[1]
           value_type == TypeOfValue(tdStmt.value)
       IN  tdVerdict' = IF ensure_assignable(target_type, value_type) THEN "accepted"
                                                                   ELSE "rejected"
    /\ tdPc' = "done"
    /\ UNCHANGED <<tdStmt, tdTable>>
    /\ TdOnly

TdNext ==
    \/ TdVarDecl
    \/ TdAssignment

SpecDecl == TdInit /\ [][TdNext]_vars

\* ---- what the specification says about typed declarations ----
\* assignment compatibility: identical, int to dec, *void to *T
Compatible(declared, actual) ==
    \/ declared = actual
    \/ declared = <<"dec">> /\ actual = <<"int">>
    \/ Len(declared) = 2 /\ declared[1] = "*" /\ actual = <<"*", "void">>

\* C26: a value is accepted for a variable declared with a type, as its
\* initializer or in an assignment, exactly if its type is
\* assignment-compatible with the declared type
C26_InitializerCompatible ==
    tdPc = "done" =>
        (tdVerdict = "accepted" <=> Compatible(tdStmt.var_type, TypeOfValue(tdStmt.value)))

(***************************************************************************)
(* BUILTIN NAMES                                                           *)
(*                                                                         *)
(* Main holds one statement, the call name(args).  g(x) is the one         *)
(* function the program declares besides Main.  compile_vyl runs           *)
(* resolve_program, type_check and validate_program in this order and      *)
(* stops at the first ValidationError.  An argument is a literal or a       *)
(* variable; only its type matters here.                                   *)
(***************************************************************************)
MaxCallArgs == 2

\* resolver.py
ResolverBUILTIN_FUNCTIONS ==
    {"Alloc", "Argc", "Array", "Clock", "Close", "CloseDir",
     "CopyFile", "CreateFolder", "Exists", "Exit", "Free", "GC",
     "GetArg", "GetEnv", "HttpDownload", "HttpGet", "Input", "Len",
     "Length", "MkdirP", "Now", "Open", "OpenDir", "Print",
     "RandInt", "Read", "ReadDir", "ReadFilesize", "Remove", "RemoveAll",
     "SHA256", "Sleep", "Sqrt", "StrConcat", "StrFind", "StrLen",
     "Substring", "Sys", "TcpClose", "TcpConnect", "TcpRecv", "TcpResolve",
     "TcpSend", "TlsClose", "TlsConnect", "TlsRecv", "TlsSend", "Unzip",
     "Write"}

\* validator.py
ValidatorBUILTIN_FUNCTIONS ==
    {"Alloc", "Argc", "Array", "Clock", "Close", "CloseDir",
     "CopyFile", "CreateFolder", "Exists", "Exit", "Free", "GC",
     "GetArg", "GetEnv", "HttpDownload", "HttpGet", "Input", "Len",
     "Length", "MkdirP", "Now", "Open", "OpenDir", "Print",
     "RandInt", "Read", "ReadDir", "ReadFilesize", "Remove", "RemoveAll",
     "SHA256", "Sleep", "Sqrt", "StrConcat", "StrFind", "StrLen",
     "Substring", "Sys", "TcpClose", "TcpConnect", "TcpRecv", "TcpResolve",
     "TcpSend", "TlsClose", "TlsConnect", "TlsRecv", "TlsSend", "Unzip",
     "Write"}

\* type_checker.py, name |-> the parameter types; <<>> is None, any type
TypeCheckerBUILTINS ==
    "Print" :> <<<<>>>>
    @@ "Clock" :> <<>>
    @@ "Exists" :> <<<<"string">>>>
    @@ "CreateFolder" :> <<<<"string">>>>
    @@ "Open" :> <<<<"string">>, <<"string">>>>
    @@ "Close" :> <<<<"int">>>>
    @@ "Read" :> <<<<"int">>>>
    @@ "Write" :> <<<<"int">>, <<"string">>>>
    @@ "SHA256" :> <<<<"string">>>>
    @@ "Argc" :> <<>>
    @@ "GetArg" :> <<<<"int">>>>
    @@ "ReadFilesize" :> <<<<"string">>>>
    @@ "GC" :> <<>>
    @@ "Sys" :> <<<<"string">>>>
    @@ "Input" :> <<>>
    @@ "Exit" :> <<<<"int">>>>
    @@ "Sleep" :> <<<<"int">>>>
    @@ "Now" :> <<>>
    @@ "RandInt" :> <<>>
    @@ "Remove" :> <<<<"string">>>>
    @@ "MkdirP" :> <<<<"string">>>>
    @@ "RemoveAll" :> <<<<"string">>>>
    @@ "CopyFile" :> <<<<"string">>, <<"string">>>>
    @@ "Unzip" :> <<<<"string">>, <<"string">>>>
    @@ "OpenDir" :> <<<<"string">>>>
    @@ "ReadDir" :> <<<<"int">>>>
    @@ "CloseDir" :> <<<<"int">>>>
    @@ "Alloc" :> <<<<"int">>>>
    @@ "StrConcat" :> <<<<"string">>, <<"string">>>>
    @@ "StrLen" :> <<<<"string">>>>
    @@ "StrFind" :> <<<<"string">>, <<"string">>>>
    @@ "Substring" :> <<<<"string">>, <<"int">>, <<"int">>>>
    @@ "GetEnv" :> <<<<"string">>>>
    @@ "TcpConnect" :> <<<<"string">>, <<"int">>>>
    @@ "TcpSend" :> <<<<"int">>, <<"string">>>>
    @@ "TcpRecv" :> <<<<"int">>, <<"int">>>>
    @@ "TcpClose" :> <<<<"int">>>>
    @@ "TcpResolve" :> <<<<"string">>>>
    @@ "TlsConnect" :> <<<<"string">>, <<"int">>>>
    @@ "TlsSend" :> <<<<"int">>, <<"string">>>>
    @@ "TlsRecv" :> <<<<"int">>, <<"int">>>>
    @@ "TlsClose" :> <<<<"int">>>>
    @@ "HttpGet" :> <<<<"string">>, <<"string">>, <<"int">>>>
    @@ "HttpDownload" :> <<<<"string">>, <<"string">>, <<"int">>, <<"string">>>>
    @@ "Array" :> <<<<"int">>>>
    @@ "Length" :> <<<<"array">>>>
    @@ "Len" :> <<<<>>>>
    @@ "Sqrt" :> <<<<"int">>>>
    @@ "Malloc" :> <<<<"int">>>>
    @@ "Free" :> <<<<"int">>>>
    @@ "Memcpy" :> <<<<"int">>, <<"int">>, <<"int">>>>
    @@ "Memset" :> <<<<"int">>, <<"int">>, <<"int">>>>

\* the functions of the program: name |-> the declared parameter types,
\* <<>> for a parameter without a type
UserFunctions == [g |-> <<<<>>>>]

CallNames ==
    DOMAIN TypeCheckerBUILTINS \cup ResolverBUILTIN_FUNCTIONS
        \cup ValidatorBUILTIN_FUNCTIONS \cup DOMAIN UserFunctions \cup {"Nope"}

\* the arguments the signature asks for, an int where any type will do
Typed(params) == [i \in DOMAIN params |-> IF params[i] = <<>> THEN <<"int">> ELSE params[i]]

ArgTypeLists ==
    UNION {[1 .. n -> {<<"int">>, <<"string">>}] : n \in 0 .. MaxCallArgs}

BnCalls ==
    UNION {{[name |-> n, args |-> as] :
                as \in ArgTypeLists
                    \cup (IF n \in DOMAIN TypeCheckerBUILTINS
                             THEN {Typed(TypeCheckerBUILTINS[n])} ELSE {})} :
           n \in CallNames}

BnInit ==
    /\ bnPc = "resolve"
    /\ bnCall \in BnCalls
    /\ bnPassed = <<>>
    /\ bnError = "none"
    /\ DrvIdle
    /\ IncIdle
    /\ LpIdle
    /\ SemIdle
    /\ DfIdle
    /\ IxIdle
    /\ GcIdle
    /\ CallIdle
    /\ AsIdle
    /\ UpIdle
    /\ LxIdle
    /\ FrIdle
    /\ CsIdle
    /\ WhIdle
    /\ PrIdle
    /\ TdIdle
    /\ EmIdle

BnOnly ==
    UNCHANGED <<drvVars, incVars, lpVars, semVars, dfVars, ixVars, gcVars, callVars, asVars, upVars, lxVars, frVars, csVars, whVars, prVars, tdVars, emVars>>

\* a phase ends: with the error it raised, or with the next phase to run
BnPhaseEnds(phase, error, next) ==
    /\ bnError' = error
    /\ IF error = "none"
          THEN bnPassed' = Append(bnPassed, phase) /\ bnPc' = next
          ELSE bnPassed' = bnPassed /\ bnPc' = "done"
    /\ UNCHANGED bnCall
    /\ BnOnly

\* _resolve_expression, FunctionCall
BnResolve ==
    /\ bnPc = "resolve"
    /\ BnPhaseEnds("resolve",
                   IF bnCall.name \notin ResolverBUILTIN_FUNCTIONS
                         /\ bnCall.name \notin DOMAIN UserFunctions
                      THEN "Unknown function" ELSE "none",
                   "type")

\* every argument is assignable to its parameter; expected(i) is the type
\* asked of the i-th argument, <<>> if none is asked
ArgumentsAssignable(args, expected(_)) ==
    \A i \in DOMAIN args :
        expected(i) = <<>> \/ ensure_assignable(expected(i), args[i])

\* _type_of_expression, FunctionCall
CheckedCall(c) ==
    IF c.name = "CreateFolder"
       THEN IF c.args = <<>> THEN "expects at least 1 arg"
            ELSE IF ArgumentsAssignable(c.args, LAMBDA i : <<"string">>) THEN "none"
            ELSE "Type mismatch"
    ELSE IF c.name \in DOMAIN TypeCheckerBUILTINS
       THEN LET sig_params == TypeCheckerBUILTINS[c.name]
            IN  IF ~(Len(sig_params) = 1 /\ sig_params[1] = <<>>)
                      /\ Len(sig_params) # Len(c.args)
                   THEN "expects args"
                ELSE IF ArgumentsAssignable(c.args,
                            LAMBDA i : IF i <= Len(sig_params) THEN sig_params[i] ELSE <<>>)
                   THEN "none"
                ELSE "Type mismatch"
    ELSE IF c.name \notin DOMAIN UserFunctions THEN "Unknown function"
    ELSE LET params == UserFunctions[c.name]
         IN  IF Len(c.args) # Len(params) THEN "expects args"
             ELSE IF ArgumentsAssignable(c.args,
                         LAMBDA i : IF params[i] = <<>> THEN <<"int">> ELSE params[i])
                THEN "none"
             ELSE "Type mismatch"

BnTypeCheck ==
    /\ bnPc = "type"
    /\ BnPhaseEnds("type", CheckedCall(bnCall), "validate")

\* _validate_expression, FunctionCall
BnValidate ==
    /\ bnPc = "validate"
    /\ BnPhaseEnds("validate",
                   IF bnCall.name \notin ValidatorBUILTIN_FUNCTIONS
                         /\ bnCall.name \notin DOMAIN UserFunctions
                      THEN "Unknown function" ELSE "none",
                   "done")

BnNext ==
    \/ BnResolve
    \/ BnTypeCheck
    \/ BnValidate

SpecBuiltin == BnInit /\ [][BnNext]_vars

\* ---- what the specification says about builtin names ----
\* the call has the arguments the signature table asks for
CorrectlyTyped(c) ==
    /\ c.name \in DOMAIN TypeCheckerBUILTINS
    /\ c.args = Typed(TypeCheckerBUILTINS[c.name])

\* C27: a correctly typed call of a name of the type checker's signature
\* table passes the resolver, the type checker and the validator, and a
\* call of a name that is neither in the table nor a function of the
\* program is rejected
C27_BuiltinSetsAgree ==
    bnPc = "done" =>
        /\ CorrectlyTyped(bnCall) =>
              (bnError = "none" /\ bnPassed = <<"resolve", "type", "validate">>)
        /\ (bnCall.name \notin DOMAIN TypeCheckerBUILTINS
               /\ bnCall.name \notin DOMAIN UserFunctions) => bnError # "none"

(***************************************************************************)
(* CODE GENERATION OF DEFER BODIES                                         *)
(*                                                                         *)
(* A statement is [k, body]:                                               *)
(*   Call    Print(1);              Return  return 1;                      *)
(*   Try     1?;                    Defer   defer { body }                 *)
(*   If      if (true) { body }                                            *)
(* The code generator is followed through its calls: emStack holds one     *)
(* entry for every statement list generate_statement is working through,   *)
(* the function body first.  An entry is [stmts, i, labelled, after]: the  *)
(* next statement is stmts[i], labelled says whether the call was given    *)
(* the end label of the function, after is the number of instructions the  *)
(* caller emits when the list is done.  The interpreter raises             *)
(* RecursionError when the calls are nested deeper than RecursionLimit.    *)
(***************************************************************************)
MaxEmitBody == 2

MaxDeferBody == 2

RecursionLimit == 5

Stmt(k, body) == [k |-> k, body |-> body]

PlainStmts == {Stmt("Call", <<>>), Stmt("Return", <<>>), Stmt("Try", <<>>)}

\* the statements of a defer body: a defer may hold a defer
DeferredStmts == PlainStmts \cup {Stmt("Defer", <<Stmt("Call", <<>>)>>)}

DeferBodies == SeqsUpTo(DeferredStmts, MaxDeferBody) \ {<<>>}

DeferStmts == {Stmt("Defer", b) : b \in DeferBodies}

EmitStmts ==
    PlainStmts \cup DeferStmts
        \cup {Stmt("If", b) : b \in SeqsUpTo(PlainStmts \cup DeferStmts, 1)}

EmInit ==
    /\ emStatus = "start"
    /\ emProg \in SeqsUpTo(EmitStmts, MaxEmitBody)
    /\ emStack = <<>>
    /\ emDefers = <<>>
    /\ emCount = 0
    /\ DrvIdle
    /\ IncIdle
    /\ LpIdle
    /\ SemIdle
    /\ DfIdle
    /\ IxIdle
    /\ GcIdle
    /\ CallIdle
    /\ AsIdle
    /\ UpIdle
    /\ LxIdle
    /\ FrIdle
    /\ CsIdle
    /\ WhIdle
    /\ PrIdle
    /\ TdIdle
    /\ BnIdle

EmOnly ==
    UNCHANGED <<drvVars, incVars, lpVars, semVars, dfVars, ixVars, gcVars, callVars, asVars, upVars, lxVars, frVars, csVars, whVars, prVars, tdVars, bnVars>>

StmtList(stmts, labelled, after) ==
    [stmts |-> stmts, i |-> 1, labelled |-> labelled, after |-> after]

EmTop == emStack[Len(emStack)]

EmStmt == EmTop.stmts[EmTop.i]

EmAt(kinds) ==
    /\ emStatus \in {"body", "tail"}
    /\ emStack # <<>>
    /\ EmTop.i <= Len(EmTop.stmts)
    /\ EmStmt.k \in kinds

\* the statement is done: the list goes on with the next one
EmAdvanced == [emStack EXCEPT ![Len(emStack)].i = @ + 1]

\* for defer_stmt in reversed(self.defer_stack): for stmt in defer_stmt.body.statements
RECURSIVE DeferredStatements(_)
DeferredStatements(defers) ==
    IF defers = <<>> THEN <<>>
    ELSE defers[Len(defers)] \o DeferredStatements(SubSeq(defers, 1, Len(defers) - 1))

\* a call that generates the statement list l; the caller has emitted n
\* instructions before it
EmEnter(stack, l, n) ==
    IF Len(stack) >= RecursionLimit
       THEN /\ emStatus' = "RecursionError"
            /\ UNCHANGED <<emStack, emCount>>
       ELSE /\ emStack' = Append(stack, l)
            /\ emCount' = emCount + n
            /\ UNCHANGED emStatus

\* _emit_deferred_statements, called after n instructions and followed by m:
\* nothing if defer_stack is empty, else pushq %rax, the statements of the
\* deferred bodies, popq %rax
EmitDeferredStatements(stack, n, m) ==
    IF emDefers = <<>>
       THEN /\ emStack' = stack
            /\ emCount' = emCount + n + m
            /\ UNCHANGED emStatus
       ELSE EmEnter(stack, StmtList(DeferredStatements(emDefers), FALSE, 1 + m), n + 1)

\* generate_function: the statements of the body, with the end label
EmFunction ==
    /\ emStatus = "start"
    /\ emStatus' = "body"
    /\ emStack' = <<StmtList(emProg, TRUE, 0)>>
    /\ UNCHANGED <<emProg, emDefers, emCount>>
    /\ EmOnly

\* generate_statement, FunctionCall: movq, movq, call
EmCallStmt ==
    /\ EmAt({"Call"})
    /\ emStack' = EmAdvanced
    /\ emCount' = emCount + 3
    /\ UNCHANGED <<emStatus, emProg, emDefers>>
    /\ EmOnly

\* generate_statement, DeferStmt
EmDeferStmt ==
    /\ EmAt({"Defer"})
    /\ emDefers' = Append(emDefers, EmStmt.body)
    /\ emStack' = EmAdvanced
    /\ UNCHANGED <<emStatus, emProg, emCount>>
    /\ EmOnly

\* generate_statement, ReturnStmt: the value, the deferred statements, then
\* jmp to the end label or leave and ret
EmReturnStmt ==
    /\ EmAt({"Return"})
    /\ EmitDeferredStatements(EmAdvanced, 1, IF EmTop.labelled THEN 1 ELSE 2)
    /\ UNCHANGED <<emProg, emDefers>>
    /\ EmOnly

\* generate_try_expr: the operand, cmpq, jge, the deferred statements, jmp,
\* the label
EmTryExpr ==
    /\ EmAt({"Try"})
    /\ EmitDeferredStatements(EmAdvanced, 3, 2)
    /\ UNCHANGED <<emProg, emDefers>>
    /\ EmOnly

\* generate_if: the condition, cmpq, je, the block, jmp and the two labels
EmIfStmt ==
    /\ EmAt({"If"})
    /\ EmEnter(EmAdvanced, StmtList(EmStmt.body, EmTop.labelled, 3), 3)
    /\ UNCHANGED <<emProg, emDefers>>
    /\ EmOnly

\* a statement list is done: the caller goes on
EmLeave ==
    /\ emStatus \in {"body", "tail"}
    /\ emStack # <<>>
    /\ EmTop.i > Len(EmTop.stmts)
    /\ emStack' = SubSeq(emStack, 1, Len(emStack) - 1)
    /\ emCount' = emCount + EmTop.after
    /\ emStatus' = IF emStatus = "tail" /\ Len(emStack) = 1 THEN "done" ELSE emStatus
    /\ UNCHANGED <<emProg, emDefers>>
    /\ EmOnly

\* generate_function after the body: the deferred statements of the implicit
\* return, then the end label, leave and ret
EmTail ==
    /\ emStatus = "body"
    /\ emStack = <<>>
    /\ IF emDefers = <<>>
          THEN /\ emStatus' = "done"
               /\ emCount' = emCount + 3
               /\ UNCHANGED emStack
          ELSE /\ emStatus' = "tail"
               /\ emStack' = <<StmtList(DeferredStatements(emDefers), FALSE, 4)>>
               /\ emCount' = emCount + 1
    /\ UNCHANGED <<emProg, emDefers>>
    /\ EmOnly

EmNext ==
    \/ EmFunction
    \/ EmCallStmt
    \/ EmDeferStmt
    \/ EmReturnStmt
    \/ EmTryExpr
    \/ EmIfStmt
    \/ EmLeave
    \/ EmTail

SpecEmit == EmInit /\ [][EmNext]_vars

\* the code generator takes its steps one after the other
SpecEmitFair == SpecEmit /\ WF_vars(EmNext)

\* C29: code generation comes to its end for every function body; the
\* statements of a defer body, a return or a `?` among them, do not make the
\* generator call itself until the interpreter gives up
C29_CodegenTerminates ==
    /\ <>(emStatus = "done")
    /\ [](emStatus # "RecursionError")

====
